---------------------------- MODULE Spec2Model ----------------------------
(***************************************************************************)
(* Model of the ATECC508A capsule (capsules/extra/src/atecc508a.rs): the   *)
(* split-phase Operation state machine driven by I2C completions, the      *)
(* command framer with its CRC-16, and the entropy iterator.               *)
(*                                                                         *)
(* Buffers are functions from the Rust index (0-based) to a byte.  The     *)
(* I2C transport and the chip are the environment: a transfer handed to    *)
(* the transport is pending until the environment completes it with a      *)
(* status and, for a successful read, the bytes the chip answered.         *)
(***************************************************************************)
EXTENDS Integers, Sequences, FiniteSets, TLC

(***************************************************************************)
(* Program constants.                                                      *)
(***************************************************************************)
RESPONSE_COUNT_SIZE == 1
RESPONSE_SIGNAL_SIZE == 1
RESPONSE_RANDOM_SIZE == 32
CRC_SIZE == 2
ATRCC508A_PROTOCOL_FIELD_COMMAND == 0
ATRCC508A_PROTOCOL_FIELD_LENGTH == 1
ATRCC508A_PROTOCOL_FIELD_OPCODE == 2
ATRCC508A_PROTOCOL_FIELD_PARAM1 == 3
ATRCC508A_PROTOCOL_FIELD_PARAM2 == 4
ATRCC508A_PROTOCOL_FIELD_DATA == 6
ATRCC508A_PROTOCOL_FIELD_SIZE_COMMAND == 1
ATRCC508A_PROTOCOL_FIELD_SIZE_LENGTH == 1
ATRCC508A_PROTOCOL_FIELD_SIZE_CRC == 2
ATRCC508A_PROTOCOL_OVERHEAD == 8
ZONE_CONFIG == 0
ZONE_DATA == 2
ADDRESS_CONFIG_READ_BLOCK_0 == 0
ADDRESS_CONFIG_READ_BLOCK_2 == 16
CONFIG_ZONE_READ_SIZE == 32
CONFIG_ZONE_OTP_LOCK == 86
CONFIG_ZONE_LOCK_STATUS == 87
COMMAND_OPCODE_LOCK == 23
COMMAND_OPCODE_RANDOM == 27
COMMAND_OPCODE_READ == 2
COMMAND_OPCODE_WRITE == 18
COMMAND_OPCODE_GENKEY == 64
LOCK_MODE_ZONE_CONFIG == 128
LOCK_MODE_ZONE_DATA_AND_OTP == 129
LOCK_MODE_SLOT0 == 130
PUBLIC_KEY_SIZE == 64
BUFFER_SIZE == 128
RESPONSE_SIGNAL_INDEX == 1
ATRCC508A_SUCCESSFUL_LOCK == 0
WORD_ADDRESS_VALUE_COMMAND == 3
GENKEY_MODE_NEW_PRIVATE == 4

(***************************************************************************)
(* Bounds of the model.                                                    *)
(***************************************************************************)
\* entry-point calls per behaviour of Spec
MaxCalls == 2
\* NAK completions per behaviour of Spec
MaxNaks == 1
\* entry-point calls per behaviour of SpecIdle
IdleCalls == 1
\* pulls a client makes on the iterator inside one callback
MaxPulls == 9
\* the key slots create_key_pair is called with
Slots == {0, 1}
\* longest byte sequence calculate_crc is applied to on its own
MaxCrcLen == 3


(***************************************************************************)
(* Bytes and bit operations.                                               *)
(***************************************************************************)
RECURSIVE BitXor(_, _, _)
BitXor(a, b, n) ==
    IF n = 0 THEN 0
    ELSE (((a % 2) + (b % 2)) % 2) + 2 * BitXor(a \div 2, b \div 2, n - 1)

RECURSIVE BitAnd(_, _, _)
BitAnd(a, b, n) ==
    IF n = 0 THEN 0
    ELSE ((a % 2) * (b % 2)) + 2 * BitAnd(a \div 2, b \div 2, n - 1)

RECURSIVE BitOr(_, _, _)
BitOr(a, b, n) ==
    IF n = 0 THEN 0
    ELSE (IF a % 2 = 1 \/ b % 2 = 1 THEN 1 ELSE 0)
         + 2 * BitOr(a \div 2, b \div 2, n - 1)

\* a with the bit of weight w (a power of two) inverted
ToggleBit(a, w) == IF (a \div w) % 2 = 1 THEN a - w ELSE a + w

\* crc_register ^ 0x1021, the polynomial of the CCITT checksum
xor_polynomial_Ccitt(crc_register) ==
    ToggleBit(ToggleBit(ToggleBit(crc_register, 1), 32), 4096)

\* crc_register ^ 0x8005: the polynomial's bits are those of weight 2^15, 2^2, 2^0
xor_polynomial(crc_register) ==
    ToggleBit(ToggleBit(ToggleBit(crc_register, 1), 4), 32768)

\* one iteration of the inner while loop: shift_register is the one-bit mask
crc_step(crc_register, byte, shift_register) ==
    LET data_bit == IF (byte \div shift_register) % 2 > 0 THEN 1 ELSE 0
        crc_bit == crc_register \div 32768
        shifted == (crc_register * 2) % 65536
    IN  IF data_bit # crc_bit THEN xor_polynomial(shifted) ELSE shifted

\* the inner while loop; the test on `next` makes TLC evaluate each iteration
\* before the following one
RECURSIVE crc_byte(_, _, _)
crc_byte(crc_register, byte, shift_register) ==
    IF shift_register % 256 = 0 THEN crc_register
    ELSE LET next == crc_step(crc_register, byte, shift_register)
         IN  IF next < 0 THEN next
             ELSE crc_byte(next, byte, (shift_register * 2) % 256)

\* the outer for loop of calculate_crc, over data[from .. to-1]
RECURSIVE crc_range(_, _, _, _)
crc_range(data, from, to, crc_register) ==
    IF from >= to THEN crc_register
    ELSE LET next == crc_byte(crc_register, data[from], 1)
         IN  IF next < 0 THEN next
             ELSE crc_range(data, from + 1, to, next)

calculate_crc(data, from, to) == crc_range(data, from, to, 0)


(***************************************************************************)
(* chips/rp2040/src/pio_spi.rs: the half-duplex SPI shim over a PIO state  *)
(* machine.  Its handlers are functions from the shim before the call to   *)
(* the shim after it, with what they did to the pin and the state machine. *)
(***************************************************************************)

\* the SubSliceMut<'static, u32> buffers that exist
SpiBuffers == {"b1", "b2"}

\* where a buffer is: with the client, inside the state cell, lent to the
\* state machine, or dropped (a moved SubSliceMut that went out of scope)
BufferPlaces == {"client", "state", "sm", "dropped"}

\* enum SpiState; buf is <<>> for a variant without a buffer
SpiState(tag, buf) == [tag |-> tag, buf |-> buf]
SpiIdle == SpiState("Idle", <<>>)
SpiBusy == SpiState("Busy", <<>>)

SpiStateTags ==
    {"Busy", "Idle", "ReadCmdSent", "ReadWaitForData", "ReadWaitForStatus",
     "WriteCmdSent", "WriteWaitForStatus"}

is_idle(state) == state.tag = "Idle"

\* PioSpi::new; state is the MapCell: <<>> when empty, <<state>> when full
SpiNew ==
    [state   |-> <<SpiIdle>>,
     program |-> FALSE,
     client  |-> FALSE,
     cs      |-> "high",
     where   |-> [b \in SpiBuffers |-> "client"]]

\* the shim inside a handler: its fields, what the handler did so far and returns
SpiCall(p) ==
    [state |-> p.state, program |-> p.program, client |-> p.client, cs |-> p.cs,
     where |-> p.where, events |-> <<>>, ret |-> "Ok", reentry |-> <<>>]

SpiDid(p, event) == [p EXCEPT !.events = Append(@, event)]
SpiErr(p, code) == [p EXCEPT !.ret = code]

\* a SubSliceMut that goes out of scope
Dropped(p, buf) ==
    IF buf = <<>> THEN p ELSE [p EXCEPT !.where[buf[1]] = "dropped"]

\* MapCell::replace and MapCell::put: what the cell held goes out of scope
StateReplace(p, state) ==
    LET old == IF p.state = <<>> THEN <<>> ELSE p.state[1].buf
        q == Dropped(p, old)
    IN  [q EXCEPT !.state = <<state>>,
                  !.where = IF state.buf = <<>> THEN @
                            ELSE [@ EXCEPT ![state.buf[1]] = "state"]]

\* self.state.map_or(false, |state| !state.is_idle())
StateBusy(p) == IF p.state = <<>> THEN FALSE ELSE ~is_idle(p.state[1])

\* the pushes of a command, any of which the state machine may refuse
PushPoints == {"read_bits", "write_bits", "cmd"}
PushFailures == {"none"} \cup PushPoints

\* the common first part of cmd_read and cmd_write, up to the last push:
\* [p, done] where done says that it returned early
CmdSetup(p, buf, fails) ==
    LET p1 == SpiDid(SpiDid(StateReplace(p, SpiBusy), "cs.clear"), "sm.set_enabled")
        p2 == [p1 EXCEPT !.cs = "low"]
        p3 == SpiDid(p2, "sm.push")
        p4 == SpiDid(SpiDid(p3, "sm.exec"), "sm.push")
        p5 == SpiDid(SpiDid(p4, "sm.exec"), "sm.exec")
        p6 == SpiDid(SpiDid(p5, "sm.exec_program"), "sm.set_enabled")
    IN  IF fails = "read_bits" THEN [p |-> Dropped(SpiErr(p3, "FAIL"), <<buf>>), done |-> TRUE]
        ELSE IF fails = "write_bits"
        THEN [p |-> Dropped(SpiErr(p4, "FAIL"), <<buf>>), done |-> TRUE]
        ELSE IF ~p.program THEN [p |-> Dropped(SpiErr(p5, "OFF"), <<buf>>), done |-> TRUE]
        ELSE [p |-> p6, done |-> FALSE]

\* cmd_read refusing only in the Busy state
cmd_read_BusyOnly(p, read, fails) ==
    IF p.state # <<>> /\ p.state[1].tag = "Busy" THEN Dropped(SpiErr(p, "BUSY"), <<read>>)
    ELSE LET r == CmdSetup(p, read, fails)
             pushed == SpiDid(r.p, "sm.push")
         IN  IF r.done THEN r.p
             ELSE IF fails = "cmd" THEN Dropped(SpiErr(pushed, "FAIL"), <<read>>)
             ELSE StateReplace(pushed, SpiState("ReadCmdSent", <<read>>))

cmd_read(p, read, fails) ==
    IF StateBusy(p) THEN Dropped(SpiErr(p, "BUSY"), <<read>>)
    ELSE LET r == CmdSetup(p, read, fails)
             pushed == SpiDid(r.p, "sm.push")
         IN  IF r.done THEN r.p
             ELSE IF fails = "cmd" THEN Dropped(SpiErr(pushed, "FAIL"), <<read>>)
             ELSE StateReplace(pushed, SpiState("ReadCmdSent", <<read>>))

cmd_write(p, write, fails) ==
    IF StateBusy(p) THEN Dropped(SpiErr(p, "BUSY"), <<write>>)
    ELSE LET r == CmdSetup(p, write, fails)
             pushed == SpiDid(r.p, "sm.push_bulk")
         IN  IF r.done THEN r.p
             ELSE IF fails = "cmd" THEN Dropped(SpiErr(pushed, "FAIL"), <<write>>)
             ELSE StateReplace([pushed EXCEPT !.where[write] = "sm"],
                               SpiState("WriteCmdSent", <<>>))

\* buffer is <<>> for None and <<b>> for Some(b); pulled says that the pull
\* the handler asks of the state machine is accepted
process_state_change(p, buffer, pulled) ==
    IF p.state = <<>> THEN Dropped(p, buffer)
    ELSE LET state == p.state[1]
             taken == [p EXCEPT !.state = <<>>]
         IN  IF state.tag = "ReadCmdSent" /\ buffer = <<>>
             THEN LET asked == SpiDid(taken, "sm.pull_bulk")
                  IN  IF pulled
                      THEN [asked EXCEPT !.state = <<SpiState("ReadWaitForData", <<>>)>>,
                                         !.where[state.buf[1]] = "sm"]
                      ELSE [Dropped(asked, state.buf) EXCEPT !.state = <<SpiBusy>>]
             ELSE IF state.tag \in {"ReadWaitForData", "WriteCmdSent"} /\ buffer # <<>>
             THEN LET asked == SpiDid(taken, "sm.pull")
                      next == IF state.tag = "ReadWaitForData"
                              THEN "ReadWaitForStatus" ELSE "WriteWaitForStatus"
                  IN  IF pulled
                      THEN [asked EXCEPT !.state = <<SpiState(next, buffer)>>,
                                         !.where[buffer[1]] = "state"]
                      ELSE [Dropped(asked, buffer) EXCEPT !.state = <<SpiBusy>>]
             ELSE Dropped(Dropped(taken, state.buf), buffer)

\* what the client does inside on_cmd_read / on_cmd_write
NoReaction == [call |-> "none", fails |-> "none"]
ClientReactions == [call : {"none", "cmd_read", "cmd_write"}, fails : PushFailures]

\* PioSpiClient::on_cmd_read / on_cmd_write: the client is handed the buffer
\* and may start the next command with it before it returns
ClientCallback(p, event, buf, reaction) ==
    LET handed == SpiDid([p EXCEPT !.where[buf] = "client"], event)
        called == IF reaction.call = "cmd_read" THEN cmd_read(handed, buf, reaction.fails)
                  ELSE IF reaction.call = "cmd_write"
                  THEN cmd_write(handed, buf, reaction.fails)
                  ELSE handed
    IN  IF reaction.call = "none" THEN handed
        ELSE [called EXCEPT !.ret = "Ok",
                            !.reentry = <<[call |-> reaction.call, buf |-> buf,
                                           ret |-> called.ret]>>]

update_status(p, reaction) ==
    IF ~p.client \/ p.state = <<>> THEN p
    ELSE LET state == p.state[1]
             taken == [p EXCEPT !.state = <<>>]
             raised == [SpiDid(taken, "cs.set") EXCEPT !.cs = "high"]
         IN  IF state.tag = "ReadWaitForStatus"
             THEN StateReplace(ClientCallback(raised, "on_cmd_read", state.buf[1], reaction),
                               SpiIdle)
             ELSE IF state.tag = "WriteWaitForStatus"
             THEN StateReplace(ClientCallback(raised, "on_cmd_write", state.buf[1], reaction),
                               SpiIdle)
             ELSE Dropped(taken, state.buf)

read_complete(p, reaction) == update_status(p, reaction)
read_bulk_complete(p, buf, pulled) == process_state_change(p, <<buf>>, pulled)
write_complete(p, pulled) == process_state_change(p, <<>>, pulled)
write_bulk_complete(p, buf, pulled) == process_state_change(p, <<buf>>, pulled)

\* PioSpi::init: the client is set first; the callbacks of the state machine
\* are registered only when the program was loaded
init(p, loaded) ==
    LET q == [p EXCEPT !.client = TRUE]
    IN  IF loaded THEN [q EXCEPT !.program = TRUE] ELSE SpiErr(q, "FAIL")

\* what a PioSpi handler was, was given, found and did
SpiStep(call, buf, pre, events, ret, reentry) ==
    [call |-> call, buf |-> buf, pre |-> pre, events |-> events, ret |-> ret,
     reentry |-> reentry]

(***************************************************************************)
(* State.                                                                  *)
(***************************************************************************)
VARIABLES
    op,              \* Cell<Operation>: [tag, run, slot]
    op_len,          \* Cell<usize>
    buffer,          \* TakeCell<[u8]>: <<>> when empty, <<contents>> when held
    i2c,             \* transfers handed to the transport and not yet completed
    entropy_buffer,  \* TakeCell<[u8; 32]>: <<>> or <<contents>>
    entropy_offset,  \* Cell<usize>
    entropy_client,  \* OptionalCell: TRUE when a client is registered
    config_lock,     \* Cell<bool>
    data_lock,       \* Cell<bool>
    public_key,      \* OptionalCell<[u8; 64]>
    panicked,        \* an assertion, unreachable!() or unwrap() has fired
    last,            \* what the last handler was, was given, and did
    history,         \* the requests of the operation in progress, while all went ok
    calls,           \* operations started so far, by a call or by a re-fetch
    naks,            \* NAK completions delivered so far (saturating)
    spi,             \* PioSpi: [state, program, client, cs] and where its buffers are
    spi_last         \* what the last PioSpi handler was, was given, and did

atecc_vars == <<op, op_len, buffer, i2c, entropy_buffer, entropy_offset,
                entropy_client, config_lock, data_lock, public_key, panicked,
                last, history, calls, naks>>

spi_vars == <<spi, spi_last>>

vars == <<atecc_vars, spi_vars>>

\* enum Operation
Operation(tag, run, slot) == [tag |-> tag, run |-> run, slot |-> slot]
Ready == Operation("Ready", 0, 0)

OperationTags ==
    {"Ready", "ReadConfigZeroCommand", "ReadConfigZeroResult",
     "ReadConfigTwoCommand", "ReadConfigTwoResult", "GenerateEntropyCommand",
     "GenerateEntropyResult", "SetupConfigOne", "SetupConfigTwo",
     "LockZoneConfig", "LockResponse", "CreateKeyPair", "ReadKeyPair",
     "LockDataOtp", "LockSlot0"}

\* i2c::Error::{AddressNak, DataNak}; ArbitrationLost stands for every other error
Statuses == {"Ok", "AddressNak", "DataNak", "ArbitrationLost"}
IsNak(status) == status = "DataNak" \/ status = "AddressNak"

Indices == 0 .. (BUFFER_SIZE - 1)
ZeroBuffer == [i \in Indices |-> 0]
ZeroPool == [i \in 0 .. (RESPONSE_RANDOM_SIZE - 1) |-> 0]
ZeroKey == [i \in 0 .. (PUBLIC_KEY_SIZE - 1) |-> 0]

\* buf[from .. from+n-1] as a sequence
Slice(buf, from, n) == [k \in 1 .. n |-> buf[from + k - 1]]

(***************************************************************************)
(* What a handler did, in order.  Every event has the same fields.          *)
(***************************************************************************)
Event(ev, len, data, status, pulled, answer) ==
    [ev |-> ev, len |-> len, data |-> data, status |-> status,
     pulled |-> pulled, answer |-> answer]
WakeupEvent == Event("wakeup", 0, <<>>, "", <<>>, "")
WriteEvent(len, data) == Event("i2c_write", len, data, "", <<>>, "")
ReadEvent(len) == Event("i2c_read", len, <<>>, "", <<>>, "")
CallbackEvent(status, pulled, answer) ==
    Event("entropy_available", 0, <<>>, status, pulled, answer)

Emit(s, e) == [s EXCEPT !.events = Append(@, e)]

\* the driver's fields as one value, so that a handler is a function of it
Cur ==
    [op |-> op, op_len |-> op_len, buffer |-> buffer, i2c |-> i2c,
     entropy_buffer |-> entropy_buffer, entropy_offset |-> entropy_offset,
     config_lock |-> config_lock, data_lock |-> data_lock,
     public_key |-> public_key, panicked |-> FALSE,
     events |-> <<>>, ret |-> "Ok"]

\* (self.wakeup_device)()
wakeup_device(s) == Emit(s, WakeupEvent)

\* self.i2c.write(buffer, len): the transport takes the buffer.  `by` notes the
\* Operation in force when the transfer was issued.
i2c_write(s, buf, len) ==
    Emit([s EXCEPT !.i2c = Append(@, [kind |-> "write", len |-> len, buf |-> buf,
                                      by |-> s.op])],
         WriteEvent(len, Slice(buf, 0, len)))

\* self.i2c.read(buffer, len): the transport takes the buffer
i2c_read(s, buf, len) ==
    Emit([s EXCEPT !.i2c = Append(@, [kind |-> "read", len |-> len, buf |-> buf,
                                      by |-> s.op])],
         ReadEvent(len))

\* self.buffer.replace(buffer)
buffer_replace(s, buf) == [s EXCEPT !.buffer = <<buf>>]

(***************************************************************************)
(* Command framer.                                                         *)
(***************************************************************************)
\* send_command with the checksum taken from the word-address byte
send_command_CrcFromCommand(s, command_opcode, param1, param2, length) ==
    LET i2c_length == length + ATRCC508A_PROTOCOL_OVERHEAD IN
    IF s.buffer = <<>> THEN s
    ELSE
      LET b1 == [s.buffer[1] EXCEPT
                   ![ATRCC508A_PROTOCOL_FIELD_COMMAND] = WORD_ADDRESS_VALUE_COMMAND,
                   ![ATRCC508A_PROTOCOL_FIELD_LENGTH] =
                       (i2c_length - ATRCC508A_PROTOCOL_FIELD_SIZE_LENGTH) % 256,
                   ![ATRCC508A_PROTOCOL_FIELD_OPCODE] = command_opcode,
                   ![ATRCC508A_PROTOCOL_FIELD_PARAM1] = param1,
                   ![ATRCC508A_PROTOCOL_FIELD_PARAM2] = param2 % 256,
                   ![ATRCC508A_PROTOCOL_FIELD_PARAM2 + 1] = (param2 \div 256) % 256]
          data_crc_len == i2c_length - (ATRCC508A_PROTOCOL_FIELD_SIZE_COMMAND
                                        + ATRCC508A_PROTOCOL_FIELD_SIZE_CRC)
          crc == calculate_crc(b1, ATRCC508A_PROTOCOL_FIELD_COMMAND,
                               data_crc_len + ATRCC508A_PROTOCOL_FIELD_LENGTH)
          b2 == [b1 EXCEPT
                   ![i2c_length - ATRCC508A_PROTOCOL_FIELD_SIZE_CRC] = crc % 256,
                   ![i2c_length - ATRCC508A_PROTOCOL_FIELD_SIZE_CRC + 1] =
                       (crc \div 256) % 256]
      IN  i2c_write([s EXCEPT !.buffer = <<>>], b2, i2c_length)

send_command(s, command_opcode, param1, param2, length) ==
    LET i2c_length == length + ATRCC508A_PROTOCOL_OVERHEAD IN
    IF s.buffer = <<>> THEN s
    ELSE
      LET b1 == [s.buffer[1] EXCEPT
                   ![ATRCC508A_PROTOCOL_FIELD_COMMAND] = WORD_ADDRESS_VALUE_COMMAND,
                   ![ATRCC508A_PROTOCOL_FIELD_LENGTH] =
                       (i2c_length - ATRCC508A_PROTOCOL_FIELD_SIZE_LENGTH) % 256,
                   ![ATRCC508A_PROTOCOL_FIELD_OPCODE] = command_opcode,
                   ![ATRCC508A_PROTOCOL_FIELD_PARAM1] = param1,
                   ![ATRCC508A_PROTOCOL_FIELD_PARAM2] = param2 % 256,
                   ![ATRCC508A_PROTOCOL_FIELD_PARAM2 + 1] = (param2 \div 256) % 256]
          data_crc_len == i2c_length - (ATRCC508A_PROTOCOL_FIELD_SIZE_COMMAND
                                        + ATRCC508A_PROTOCOL_FIELD_SIZE_CRC)
          crc == calculate_crc(b1, ATRCC508A_PROTOCOL_FIELD_LENGTH,
                               data_crc_len + ATRCC508A_PROTOCOL_FIELD_LENGTH)
          b2 == [b1 EXCEPT
                   ![i2c_length - ATRCC508A_PROTOCOL_FIELD_SIZE_CRC] = crc % 256,
                   ![i2c_length - ATRCC508A_PROTOCOL_FIELD_SIZE_CRC + 1] =
                       (crc \div 256) % 256]
      IN  i2c_write([s EXCEPT !.buffer = <<>>], b2, i2c_length)

\* zone_calc of read and write
zone_calc(zone, length) ==
    IF length = 32 THEN BitOr(zone, 128, 8) ELSE BitAnd(zone, 127, 8)

\* read with op_len stored before the length is checked
read_LenStoredFirst(s, zone, address, length) ==
    IF length \notin {32, 4} THEN [s EXCEPT !.op_len = length, !.ret = "SIZE"]
    ELSE send_command([s EXCEPT !.op_len = length], COMMAND_OPCODE_READ,
                      zone_calc(zone, length), address, 0)

read(s, zone, address, length) ==
    IF length \notin {32, 4} THEN [s EXCEPT !.ret = "SIZE"]
    ELSE send_command([s EXCEPT !.op_len = length], COMMAND_OPCODE_READ,
                      zone_calc(zone, length), address, 0)

write(s, zone, address, length) ==
    IF length \notin {32, 4} THEN [s EXCEPT !.ret = "SIZE"]
    ELSE send_command([s EXCEPT !.op_len = length], COMMAND_OPCODE_WRITE,
                      zone_calc(zone, length), address, length)

\* buffer[ATRCC508A_PROTOCOL_FIELD_DATA ..+4].copy_from_slice(bytes) on the held buffer
stage_payload(s, bytes) ==
    IF s.buffer = <<>> THEN s
    ELSE [s EXCEPT !.buffer =
            <<[i \in Indices |->
                 IF i >= ATRCC508A_PROTOCOL_FIELD_DATA
                    /\ i < ATRCC508A_PROTOCOL_FIELD_DATA + 4
                 THEN bytes[i - ATRCC508A_PROTOCOL_FIELD_DATA + 1]
                 ELSE s.buffer[1][i]]>>]

(***************************************************************************)
(* Entry points.                                                           *)
(***************************************************************************)
read_config_zone(s) ==
    IF s.op # Ready THEN [s EXCEPT !.panicked = TRUE]
    ELSE read(wakeup_device([s EXCEPT !.op = Operation("ReadConfigZeroCommand", 0, 0)]),
              ZONE_CONFIG, ADDRESS_CONFIG_READ_BLOCK_0, CONFIG_ZONE_READ_SIZE)

setup_tock_config(s) ==
    write(stage_payload(wakeup_device([s EXCEPT !.op = Operation("SetupConfigOne", 0, 0)]),
                        <<51, 0, 51, 0>>),
          ZONE_CONFIG, 96 \div 4, 4)

lock_zone_config(s) ==
    send_command([s EXCEPT !.op = Operation("LockZoneConfig", 0, 0)],
                 COMMAND_OPCODE_LOCK, LOCK_MODE_ZONE_CONFIG, 0, 0)

create_key_pair(s, slot) ==
    send_command(wakeup_device([s EXCEPT !.op = Operation("CreateKeyPair", 0, slot)]),
                 COMMAND_OPCODE_GENKEY, GENKEY_MODE_NEW_PRIVATE, slot, 0)

lock_data_and_otp(s) ==
    send_command(wakeup_device([s EXCEPT !.op = Operation("LockDataOtp", 0, 0)]),
                 COMMAND_OPCODE_LOCK, LOCK_MODE_ZONE_DATA_AND_OTP, 0, 0)

lock_slot0(s) ==
    send_command(wakeup_device([s EXCEPT !.op = Operation("LockSlot0", 0, 0)]),
                 COMMAND_OPCODE_LOCK, LOCK_MODE_SLOT0, 0, 0)

\* Entropy32::get
get(s) ==
    send_command(wakeup_device([s EXCEPT !.op = Operation("GenerateEntropyCommand", 0, 0)]),
                 COMMAND_OPCODE_RANDOM, 0, 0, 0)

\* cancel, had it abandoned the operation in progress
cancel_Abandons(s) == [s EXCEPT !.op = Ready]

\* Entropy32::cancel
cancel(s) == s

\* get_public_key(_slot): Err(BUSY) while the record is all zero, else the record
get_public_key(s, slot) ==
    IF \A i \in 0 .. (PUBLIC_KEY_SIZE - 1) : s.public_key[i] = 0
    THEN [ret |-> "BUSY", value |-> <<>>]
    ELSE [ret |-> "Ok", value |-> <<s.public_key>>]

\* device_locked()
device_locked(s) == s.config_lock /\ s.data_lock

(***************************************************************************)
(* Entropy iterator (Atecc508aRngIter) and the client's callback.          *)
(***************************************************************************)
\* u32::from_be_bytes of pool[offset .. offset+4].  The word is kept as its two
\* 16-bit halves <<high, low>>, its value being high * 65536 + low.
from_be_bytes(pool, offset) ==
    <<pool[offset] * 256 + pool[offset + 1], pool[offset + 2] * 256 + pool[offset + 3]>>

\* Option::None of the iterator
NoItem == <<>>

\* Atecc508aRngIter::next, had it decoded the four bytes little-endian
rng_next_LittleEndian(s) ==
    IF s.entropy_buffer = <<>> THEN [s |-> s, item |-> NoItem]
    ELSE
      LET offset == s.entropy_offset
          pool == s.entropy_buffer[1] IN
      IF offset + 4 > RESPONSE_RANDOM_SIZE
      THEN [s |-> [s EXCEPT !.panicked = TRUE], item |-> NoItem]
      ELSE [s |-> [s EXCEPT !.entropy_offset = IF offset >= 28 THEN 0 ELSE offset + 4],
            item |-> <<pool[offset + 3] * 256 + pool[offset + 2],
                       pool[offset + 1] * 256 + pool[offset]>>]

\* Atecc508aRngIter::next: the state after the pull, and the item (NoItem for None)
rng_next(s) ==
    IF s.entropy_buffer = <<>> THEN [s |-> s, item |-> NoItem]
    ELSE
      LET offset == s.entropy_offset IN
      IF offset + 4 > RESPONSE_RANDOM_SIZE
      THEN [s |-> [s EXCEPT !.panicked = TRUE], item |-> NoItem]
      ELSE [s |-> [s EXCEPT !.entropy_offset = IF offset >= 28 THEN 0 ELSE offset + 4],
            item |-> from_be_bytes(s.entropy_buffer[1], offset)]

\* the client pulls n times: the state after, and the items in order
RECURSIVE rng_pull(_, _, _)
rng_pull(s, n, items) ==
    IF n = 0 \/ s.panicked THEN [s |-> s, items |-> items]
    ELSE LET r == rng_next(s) IN rng_pull(r.s, n - 1, Append(items, r.item))

\* how a client behaves inside entropy_available: it pulls and answers
\* (no pull, one, all but the last of MaxPulls, or MaxPulls)
PullChoices == {0, 1, MaxPulls - 1, MaxPulls}
ClientBehaviours == [pulls : PullChoices, answer : {"More", "Done"}, reenter : {FALSE}]
NoClientBehaviour == [pulls |-> 0, answer |-> "Done", reenter |-> FALSE]
\* a client that also calls get() from inside the callback when it finds the
\* driver Ready
ReentrantBehaviours == [pulls : {0, 1}, answer : {"More", "Done"}, reenter : {TRUE}]

\* self.entropy_client.map(|client| client.entropy_available(&mut Atecc508aRngIter(self), status))
entropy_available(s, status, cl) ==
    IF ~entropy_client THEN s
    ELSE LET r == rng_pull(s, cl.pulls, <<>>)
             called == IF cl.reenter /\ r.s.op = Ready /\ ~r.s.panicked
                       THEN get(r.s) ELSE r.s
         IN  Emit(called, CallbackEvent(status, r.items, cl.answer))

\* client.entropy_available(&mut (0..0), Err(e)): an iterator that yields nothing
entropy_available_empty(s, status, cl) ==
    IF ~entropy_client THEN s
    ELSE Emit(s, CallbackEvent(status, [k \in 1 .. cl.pulls |-> NoItem], cl.answer))

(***************************************************************************)
(* I2CClient::command_complete, one operator per arm of the match.          *)
(***************************************************************************)
ReadConfigZeroCommand(s, buf, status) ==
    i2c_read([s EXCEPT !.op = Operation("ReadConfigZeroResult", 0, 0)],
             buf, s.op_len + RESPONSE_COUNT_SIZE + CRC_SIZE)

\* ReadConfigZeroResult, had the second block been read from the data zone
ReadConfigZeroResult_DataZone(s, run, buf, status) ==
    IF IsNak(status) THEN
        IF run = 10 THEN s
        ELSE i2c_read([s EXCEPT !.op = Operation("ReadConfigZeroResult", run + 1, 0)],
                      buf, s.op_len + RESPONSE_COUNT_SIZE + CRC_SIZE)
    ELSE
        LET s1 == [s EXCEPT !.op = Operation("ReadConfigTwoCommand", 0, 0)] IN
        IF status # "Ok" THEN [s1 EXCEPT !.panicked = TRUE]
        ELSE LET s2 == read(buffer_replace(s1, buf), ZONE_DATA,
                            ADDRESS_CONFIG_READ_BLOCK_2, CONFIG_ZONE_READ_SIZE)
             IN  IF s2.ret # "Ok" THEN [s2 EXCEPT !.panicked = TRUE] ELSE s2

ReadConfigZeroResult(s, run, buf, status) ==
    IF IsNak(status) THEN
        IF run = 10 THEN s
        ELSE i2c_read([s EXCEPT !.op = Operation("ReadConfigZeroResult", run + 1, 0)],
                      buf, s.op_len + RESPONSE_COUNT_SIZE + CRC_SIZE)
    ELSE
        LET s1 == [s EXCEPT !.op = Operation("ReadConfigTwoCommand", 0, 0)] IN
        IF status # "Ok" THEN [s1 EXCEPT !.panicked = TRUE]
        ELSE LET s2 == read(buffer_replace(s1, buf), ZONE_CONFIG,
                            ADDRESS_CONFIG_READ_BLOCK_2, CONFIG_ZONE_READ_SIZE)
             IN  IF s2.ret # "Ok" THEN [s2 EXCEPT !.panicked = TRUE] ELSE s2

ReadConfigTwoCommand(s, buf, status) ==
    i2c_read([s EXCEPT !.op = Operation("ReadConfigTwoResult", 0, 0)],
             buf, s.op_len + RESPONSE_COUNT_SIZE + CRC_SIZE)

\* ReadConfigTwoResult, had each lock byte set the other zone's flag
ReadConfigTwoResult_Swapped(s, run, buf, status) ==
    IF IsNak(status) THEN
        IF run = 10 THEN s
        ELSE i2c_read([s EXCEPT !.op = Operation("ReadConfigTwoResult", run + 1, 0)],
                      buf, s.op_len + RESPONSE_COUNT_SIZE + CRC_SIZE)
    ELSE
        LET s1 == [s EXCEPT !.op = Ready] IN
        IF status # "Ok" THEN [s1 EXCEPT !.panicked = TRUE]
        ELSE
          LET otp_lock == buf[CONFIG_ZONE_OTP_LOCK - 63]
              config_lock_byte == buf[CONFIG_ZONE_LOCK_STATUS - 63]
              s2 == IF otp_lock # 85 /\ otp_lock = 0
                    THEN [s1 EXCEPT !.config_lock = TRUE] ELSE s1
              s3 == IF config_lock_byte # 85 /\ config_lock_byte = 0
                    THEN [s2 EXCEPT !.data_lock = TRUE] ELSE s2
          IN  buffer_replace(s3, buf)

ReadConfigTwoResult(s, run, buf, status) ==
    IF IsNak(status) THEN
        IF run = 10 THEN s
        ELSE i2c_read([s EXCEPT !.op = Operation("ReadConfigTwoResult", run + 1, 0)],
                      buf, s.op_len + RESPONSE_COUNT_SIZE + CRC_SIZE)
    ELSE
        LET s1 == [s EXCEPT !.op = Ready] IN
        IF status # "Ok" THEN [s1 EXCEPT !.panicked = TRUE]
        ELSE
          LET otp_lock == buf[CONFIG_ZONE_OTP_LOCK - 63]
              config_lock_byte == buf[CONFIG_ZONE_LOCK_STATUS - 63]
              s2 == IF otp_lock # 85 /\ otp_lock = 0
                    THEN [s1 EXCEPT !.data_lock = TRUE] ELSE s1
              s3 == IF config_lock_byte # 85 /\ config_lock_byte = 0
                    THEN [s2 EXCEPT !.config_lock = TRUE] ELSE s2
          IN  buffer_replace(s3, buf)

\* GenerateEntropyCommand, had it given up without telling the client
GenerateEntropyCommand_Silent(s, run, buf, status, cl) ==
    IF IsNak(status) THEN
        LET s1 == buffer_replace(s, buf) IN
        IF run = 10 THEN s1
        ELSE send_command([s1 EXCEPT !.op = Operation("GenerateEntropyCommand", run + 1, 0)],
                          COMMAND_OPCODE_RANDOM, 0, 0, 0)
    ELSE i2c_read([s EXCEPT !.op = Operation("GenerateEntropyResult", 0, 0)],
                  buf, RESPONSE_COUNT_SIZE + RESPONSE_RANDOM_SIZE + CRC_SIZE)

GenerateEntropyCommand(s, run, buf, status, cl) ==
    IF IsNak(status) THEN
        LET s1 == buffer_replace(s, buf) IN
        IF run = 10 THEN entropy_available(s1, "NOACK", cl)
        ELSE send_command([s1 EXCEPT !.op = Operation("GenerateEntropyCommand", run + 1, 0)],
                          COMMAND_OPCODE_RANDOM, 0, 0, 0)
    ELSE i2c_read([s EXCEPT !.op = Operation("GenerateEntropyResult", 0, 0)],
                  buf, RESPONSE_COUNT_SIZE + RESPONSE_RANDOM_SIZE + CRC_SIZE)

\* GenerateEntropyResult, had the offset been reset when a new pool arrives
GenerateEntropyResult_ResetsOffset(s, run, buf, status, cl) ==
    IF IsNak(status) THEN
        IF run = 1000 THEN entropy_available(s, "NOACK", cl)
        ELSE i2c_read([s EXCEPT !.op = Operation("GenerateEntropyResult", run + 1, 0)],
                      buf, RESPONSE_COUNT_SIZE + RESPONSE_RANDOM_SIZE + CRC_SIZE)
    ELSE
        LET s1 == [s EXCEPT !.op = Ready, !.entropy_offset = 0]
            s2 == IF s1.entropy_buffer = <<>> THEN s1
                  ELSE [s1 EXCEPT !.entropy_buffer =
                          <<[i \in 0 .. (RESPONSE_RANDOM_SIZE - 1) |->
                               buf[RESPONSE_COUNT_SIZE + i]]>>]
            s3 == buffer_replace(s2, buf)
            s4 == entropy_available(s3, "Ok", cl)
        IN  IF entropy_client /\ cl.answer = "More" /\ ~s4.panicked
            THEN LET s5 == get(s4) IN
                 IF s5.ret # "Ok"
                 THEN entropy_available_empty(s5, s5.ret, NoClientBehaviour)
                 ELSE s5
            ELSE s4

\* GenerateEntropyResult, had the Operation been set to Ready after the
\* callback and the re-fetch instead of before them
GenerateEntropyResult_ReadyLast(s, run, buf, status, cl) ==
    IF IsNak(status) THEN
        IF run = 1000 THEN entropy_available(s, "NOACK", cl)
        ELSE i2c_read([s EXCEPT !.op = Operation("GenerateEntropyResult", run + 1, 0)],
                      buf, RESPONSE_COUNT_SIZE + RESPONSE_RANDOM_SIZE + CRC_SIZE)
    ELSE
        LET s1 == s
            s2 == IF s1.entropy_buffer = <<>> THEN s1
                  ELSE [s1 EXCEPT !.entropy_buffer =
                          <<[i \in 0 .. (RESPONSE_RANDOM_SIZE - 1) |->
                               buf[RESPONSE_COUNT_SIZE + i]]>>]
            s3 == buffer_replace(s2, buf)
            s4 == entropy_available(s3, "Ok", cl)
            s6 == IF entropy_client /\ cl.answer = "More" /\ ~s4.panicked
                  THEN LET s5 == get(s4) IN
                       IF s5.ret # "Ok"
                       THEN entropy_available_empty(s5, s5.ret, NoClientBehaviour)
                       ELSE s5
                  ELSE s4
        IN  [s6 EXCEPT !.op = Ready]

\* GenerateEntropyResult, had it copied the pool from the count byte on
GenerateEntropyResult_FromCount(s, run, buf, status, cl) ==
    IF IsNak(status) THEN
        IF run = 1000 THEN entropy_available(s, "NOACK", cl)
        ELSE i2c_read([s EXCEPT !.op = Operation("GenerateEntropyResult", run + 1, 0)],
                      buf, RESPONSE_COUNT_SIZE + RESPONSE_RANDOM_SIZE + CRC_SIZE)
    ELSE
        LET s1 == [s EXCEPT !.op = Ready]
            s2 == IF s1.entropy_buffer = <<>> THEN s1
                  ELSE [s1 EXCEPT !.entropy_buffer =
                          <<[i \in 0 .. (RESPONSE_RANDOM_SIZE - 1) |-> buf[i]]>>]
            s3 == buffer_replace(s2, buf)
            s4 == entropy_available(s3, "Ok", cl)
        IN  IF entropy_client /\ cl.answer = "More" /\ ~s4.panicked
            THEN LET s5 == get(s4) IN
                 IF s5.ret # "Ok"
                 THEN entropy_available_empty(s5, s5.ret, NoClientBehaviour)
                 ELSE s5
            ELSE s4

GenerateEntropyResult(s, run, buf, status, cl) ==
    IF IsNak(status) THEN
        IF run = 1000 THEN entropy_available(s, "NOACK", cl)
        ELSE i2c_read([s EXCEPT !.op = Operation("GenerateEntropyResult", run + 1, 0)],
                      buf, RESPONSE_COUNT_SIZE + RESPONSE_RANDOM_SIZE + CRC_SIZE)
    ELSE
        LET s1 == [s EXCEPT !.op = Ready]
            s2 == IF s1.entropy_buffer = <<>> THEN s1
                  ELSE [s1 EXCEPT !.entropy_buffer =
                          <<[i \in 0 .. (RESPONSE_RANDOM_SIZE - 1) |->
                               buf[RESPONSE_COUNT_SIZE + i]]>>]
            s3 == buffer_replace(s2, buf)
            s4 == entropy_available(s3, "Ok", cl)
        IN  IF entropy_client /\ cl.answer = "More" /\ ~s4.panicked
            THEN LET s5 == get(s4) IN
                 IF s5.ret # "Ok"
                 THEN entropy_available_empty(s5, s5.ret, NoClientBehaviour)
                 ELSE s5
            ELSE s4

\* SetupConfigOne, had the second write gone out without its payload staged
SetupConfigOne_Unstaged(s, buf, status) ==
    LET s1 == buffer_replace([s EXCEPT !.op = Operation("SetupConfigTwo", 0, 0)], buf)
        s2 == write(s1, ZONE_CONFIG, 20 \div 4, 4)
    IN  IF s2.ret # "Ok" THEN [s2 EXCEPT !.panicked = TRUE] ELSE s2

SetupConfigOne(s, buf, status) ==
    LET s1 == buffer_replace([s EXCEPT !.op = Operation("SetupConfigTwo", 0, 0)], buf)
        s2 == write(stage_payload(s1, <<131, 32, 131, 32>>), ZONE_CONFIG, 20 \div 4, 4)
    IN  IF s2.ret # "Ok" THEN [s2 EXCEPT !.panicked = TRUE] ELSE s2

SetupConfigTwo(s, run, buf, status) ==
    LET s1 == buffer_replace(s, buf) IN
    IF IsNak(status) THEN
        IF run = 10 THEN [s1 EXCEPT !.op = Ready]
        ELSE LET s2 == write([s1 EXCEPT !.op = Operation("SetupConfigTwo", run + 1, 0)],
                             ZONE_CONFIG, 20 \div 4, 4)
             IN  IF s2.ret # "Ok" THEN [s2 EXCEPT !.panicked = TRUE] ELSE s2
    ELSE [s1 EXCEPT !.op = Ready]

LockZoneConfig(s, run, buf, status) ==
    IF IsNak(status) THEN
        LET s1 == buffer_replace(s, buf) IN
        IF run = 30 THEN [s1 EXCEPT !.op = Ready]
        ELSE send_command([s1 EXCEPT !.op = Operation("LockZoneConfig", run + 1, 0)],
                          COMMAND_OPCODE_LOCK, LOCK_MODE_ZONE_CONFIG, 0, 0)
    ELSE i2c_read([s EXCEPT !.op = Operation("LockResponse", 0, 0)],
                  buf, RESPONSE_COUNT_SIZE + RESPONSE_SIGNAL_SIZE + CRC_SIZE)

\* LockResponse, had a successful lock been recorded in the flags
LockResponse_RecordsLock(s, run, buf, status) ==
    IF IsNak(status) THEN
        IF run = 100 THEN [buffer_replace(s, buf) EXCEPT !.op = Ready]
        ELSE i2c_read([s EXCEPT !.op = Operation("LockResponse", run + 1, 0)],
                      buf, RESPONSE_COUNT_SIZE + RESPONSE_SIGNAL_SIZE + CRC_SIZE)
    ELSE IF buf[RESPONSE_SIGNAL_INDEX] = ATRCC508A_SUCCESSFUL_LOCK
         THEN buffer_replace([s EXCEPT !.op = Ready, !.config_lock = TRUE], buf)
         ELSE buffer_replace([s EXCEPT !.op = Ready], buf)

\* LockResponse, had a failed lock been read again
LockResponse_RereadsFailure(s, run, buf, status) ==
    IF IsNak(status) \/ buf[RESPONSE_SIGNAL_INDEX] # ATRCC508A_SUCCESSFUL_LOCK THEN
        IF run = 100 THEN [buffer_replace(s, buf) EXCEPT !.op = Ready]
        ELSE i2c_read([s EXCEPT !.op = Operation("LockResponse", run + 1, 0)],
                      buf, RESPONSE_COUNT_SIZE + RESPONSE_SIGNAL_SIZE + CRC_SIZE)
    ELSE buffer_replace([s EXCEPT !.op = Ready], buf)

LockResponse(s, run, buf, status) ==
    IF IsNak(status) THEN
        IF run = 100 THEN [buffer_replace(s, buf) EXCEPT !.op = Ready]
        ELSE i2c_read([s EXCEPT !.op = Operation("LockResponse", run + 1, 0)],
                      buf, RESPONSE_COUNT_SIZE + RESPONSE_SIGNAL_SIZE + CRC_SIZE)
    ELSE buffer_replace([s EXCEPT !.op = Ready], buf)

\* CreateKeyPair, had it been given the ceiling of the lock phases
CreateKeyPair_LockCeiling(s, run, slot, buf, status) ==
    IF IsNak(status) THEN
        LET s1 == buffer_replace(s, buf) IN
        IF run = 100 THEN [s1 EXCEPT !.op = Ready]
        ELSE send_command([s1 EXCEPT !.op = Operation("CreateKeyPair", run + 1, slot)],
                          COMMAND_OPCODE_GENKEY, GENKEY_MODE_NEW_PRIVATE, slot, 0)
    ELSE i2c_read([s EXCEPT !.op = Operation("ReadKeyPair", 0, 0)],
                  buf, RESPONSE_COUNT_SIZE + PUBLIC_KEY_SIZE + CRC_SIZE)

CreateKeyPair(s, run, slot, buf, status) ==
    IF IsNak(status) THEN
        LET s1 == buffer_replace(s, buf) IN
        IF run = 10 THEN [s1 EXCEPT !.op = Ready]
        ELSE send_command([s1 EXCEPT !.op = Operation("CreateKeyPair", run + 1, slot)],
                          COMMAND_OPCODE_GENKEY, GENKEY_MODE_NEW_PRIVATE, slot, 0)
    ELSE i2c_read([s EXCEPT !.op = Operation("ReadKeyPair", 0, 0)],
                  buf, RESPONSE_COUNT_SIZE + PUBLIC_KEY_SIZE + CRC_SIZE)

ReadKeyPair(s, run, buf, status) ==
    IF IsNak(status) THEN
        IF run = 5000 THEN [buffer_replace(s, buf) EXCEPT !.op = Ready]
        ELSE i2c_read([s EXCEPT !.op = Operation("ReadKeyPair", run + 1, 0)],
                      buf, RESPONSE_COUNT_SIZE + PUBLIC_KEY_SIZE + CRC_SIZE)
    ELSE
        LET s1 == [s EXCEPT !.public_key =
                     [i \in 0 .. (PUBLIC_KEY_SIZE - 1) |-> buf[RESPONSE_COUNT_SIZE + i]]]
        IN  buffer_replace([s1 EXCEPT !.op = Ready], buf)

LockDataOtp(s, run, buf, status) ==
    IF IsNak(status) THEN
        LET s1 == buffer_replace(s, buf) IN
        IF run = 100 THEN [s1 EXCEPT !.op = Ready]
        ELSE send_command([s1 EXCEPT !.op = Operation("LockDataOtp", run + 1, 0)],
                          COMMAND_OPCODE_LOCK, LOCK_MODE_ZONE_DATA_AND_OTP, 0, 0)
    ELSE i2c_read([s EXCEPT !.op = Operation("LockResponse", 0, 0)],
                  buf, RESPONSE_COUNT_SIZE + RESPONSE_SIGNAL_SIZE + CRC_SIZE)

LockSlot0(s, run, buf, status) ==
    IF IsNak(status) THEN
        LET s1 == buffer_replace(s, buf) IN
        IF run = 100 THEN [s1 EXCEPT !.op = Ready]
        ELSE send_command([s1 EXCEPT !.op = Operation("LockSlot0", run + 1, 0)],
                          COMMAND_OPCODE_LOCK, LOCK_MODE_SLOT0, 0, 0)
    ELSE i2c_read([s EXCEPT !.op = Operation("LockResponse", 0, 0)],
                  buf, RESPONSE_COUNT_SIZE + RESPONSE_SIGNAL_SIZE + CRC_SIZE)

command_complete(s, buf, status, cl) ==
    LET tag == s.op.tag
        run == s.op.run
    IN  CASE tag = "Ready" -> [s EXCEPT !.panicked = TRUE]
          [] tag = "ReadConfigZeroCommand" -> ReadConfigZeroCommand(s, buf, status)
          [] tag = "ReadConfigZeroResult" -> ReadConfigZeroResult(s, run, buf, status)
          [] tag = "ReadConfigTwoCommand" -> ReadConfigTwoCommand(s, buf, status)
          [] tag = "ReadConfigTwoResult" -> ReadConfigTwoResult(s, run, buf, status)
          [] tag = "GenerateEntropyCommand" -> GenerateEntropyCommand(s, run, buf, status, cl)
          [] tag = "GenerateEntropyResult" -> GenerateEntropyResult(s, run, buf, status, cl)
          [] tag = "SetupConfigOne" -> SetupConfigOne(s, buf, status)
          [] tag = "SetupConfigTwo" -> SetupConfigTwo(s, run, buf, status)
          [] tag = "LockZoneConfig" -> LockZoneConfig(s, run, buf, status)
          [] tag = "LockResponse" -> LockResponse(s, run, buf, status)
          [] tag = "CreateKeyPair" -> CreateKeyPair(s, run, s.op.slot, buf, status)
          [] tag = "ReadKeyPair" -> ReadKeyPair(s, run, buf, status)
          [] tag = "LockDataOtp" -> LockDataOtp(s, run, buf, status)
          [] tag = "LockSlot0" -> LockSlot0(s, run, buf, status)

(***************************************************************************)
(* The chip's answers.  A successful read of len bytes returns the count    *)
(* byte followed by data the environment chooses among a few patterns; the *)
(* patterns on offer depend on the command the chip was last sent, which   *)
(* is still at the head of the buffer the read was given.                  *)
(***************************************************************************)
ResponseByte(r, len, i) ==
    IF i = 0 THEN len
    ELSE CASE r = "zero" -> 0
           [] r = "unlocked" -> 85
           [] r = "mixed" -> (i * 7 + 3) % 256
           [] r = "otp_only" -> IF i = CONFIG_ZONE_OTP_LOCK - 63 THEN 0
                                ELSE IF i = CONFIG_ZONE_LOCK_STATUS - 63 THEN 85
                                ELSE (i * 5 + 1) % 256
           [] r = "cfg_only" -> IF i = CONFIG_ZONE_OTP_LOCK - 63 THEN 85
                                ELSE IF i = CONFIG_ZONE_LOCK_STATUS - 63 THEN 0
                                ELSE (i * 3 + 2) % 256

\* the patterns the chip may answer the read t with
ResponseChoices(t) ==
    LET opcode == t.buf[ATRCC508A_PROTOCOL_FIELD_OPCODE] IN
    IF opcode = COMMAND_OPCODE_READ
    THEN {"zero", "unlocked", "mixed", "otp_only", "cfg_only"}
    ELSE IF opcode = COMMAND_OPCODE_GENKEY THEN {"zero", "unlocked", "mixed"}
    ELSE IF opcode = COMMAND_OPCODE_RANDOM THEN {"unlocked", "mixed"}
    ELSE {"zero", "unlocked"}

\* the buffer as the transport hands it back
Completed(t, status, r) ==
    IF t.kind = "read" /\ status = "Ok"
    THEN [i \in Indices |-> IF i < t.len THEN ResponseByte(r, t.len, i) ELSE t.buf[i]]
    ELSE t.buf

(***************************************************************************)
(* Initial state: Atecc508a::new.                                          *)
(***************************************************************************)
\* the transport requests and the client callbacks a handler made, in order
Requests(events) == SelectSeq(events, LAMBDA e : e.ev \in {"i2c_write", "i2c_read"})
Callbacks(events) == SelectSeq(events, LAMBDA e : e.ev = "entropy_available")

\* The record of the last step: the handler, its arguments, the Operation and
\* buffer ownership it found, the transfer it was the completion of (with
\* the len bytes the transport handed back), what it did and returned.
NoTransfer == [kind |-> "", len |-> 0, data |-> <<>>, by |-> Ready]
Step(call, status, slot, xfer, events, ret) ==
    [call |-> call, status |-> status, slot |-> slot, args |-> <<>>, pre |-> op,
     pre_held |-> buffer # <<>>, pre_pending |-> Len(i2c),
     pre_offset |-> entropy_offset, pre_key |-> public_key,
     pre_pool |-> entropy_buffer,
     pre_locks |-> <<config_lock, data_lock>>, xfer |-> xfer,
     events |-> events, ret |-> ret, value |-> <<>>]

\* The requests made since the entry point that started the operation in
\* progress, kept as long as every completion since has been ok.
NoHistory == [call |-> "", ok |-> FALSE, reqs |-> <<>>]
Started(call, events) == [call |-> call, ok |-> TRUE, reqs |-> Requests(events)]
Continued(h, status, events) ==
    IF h.ok /\ status = "Ok" THEN [h EXCEPT !.reqs = @ \o Requests(events)]
    ELSE NoHistory

Init ==
    /\ op = Ready
    /\ op_len = 0
    /\ buffer = <<ZeroBuffer>>
    /\ i2c = <<>>
    /\ entropy_buffer = <<ZeroPool>>
    /\ entropy_offset = 0
    /\ entropy_client = FALSE
    /\ config_lock = FALSE
    /\ data_lock = FALSE
    /\ public_key = ZeroKey
    /\ panicked = FALSE
    /\ last = [call |-> "new", status |-> "", slot |-> 0, args |-> <<>>, pre |-> Ready,
               pre_held |-> TRUE, pre_pending |-> 0, pre_offset |-> 0,
               pre_key |-> ZeroKey, pre_pool |-> <<ZeroPool>>,
               pre_locks |-> <<FALSE, FALSE>>, xfer |-> NoTransfer, events |-> <<>>,
               ret |-> "Ok", value |-> <<>>]
    /\ history = NoHistory
    /\ calls = 0
    /\ naks = 0
    /\ spi = SpiNew
    /\ spi_last = SpiStep("new", <<>>, SpiNew, <<>>, "Ok", <<>>)

\* the driver's fields after a handler ran
Commit(s, call, status, slot, xfer) ==
    /\ op' = s.op
    /\ op_len' = s.op_len
    /\ buffer' = s.buffer
    /\ i2c' = s.i2c
    /\ entropy_buffer' = s.entropy_buffer
    /\ entropy_offset' = s.entropy_offset
    /\ config_lock' = s.config_lock
    /\ data_lock' = s.data_lock
    /\ public_key' = s.public_key
    /\ panicked' = s.panicked
    /\ last' = Step(call, status, slot, xfer, s.events, s.ret)
    /\ UNCHANGED <<entropy_client, spi_vars>>

(***************************************************************************)
(* Actions.                                                                *)
(***************************************************************************)
\* Entropy32::set_client; the board registers the client, if it does, before
\* it starts the first operation
set_client ==
    /\ ~panicked
    /\ ~entropy_client
    /\ calls = 0
    /\ entropy_client' = TRUE
    /\ last' = Step("set_client", "", 0, NoTransfer, <<>>, "Ok")
    /\ UNCHANGED <<op, op_len, buffer, i2c, entropy_buffer, entropy_offset,
                   config_lock, data_lock, public_key, panicked, history, calls, naks,
                   spi_vars>>

EntryPoint(s, call, slot) ==
    /\ ~panicked
    /\ Commit(s, call, "", slot, NoTransfer)
    /\ history' = Started(call, s.events)
    /\ calls' = calls + 1
    /\ UNCHANGED naks

CallReadConfigZone ==
    \E s \in {read_config_zone(Cur)} : EntryPoint(s, "read_config_zone", 0)
CallSetupTockConfig ==
    \E s \in {setup_tock_config(Cur)} : EntryPoint(s, "setup_tock_config", 0)
CallLockZoneConfig ==
    \E s \in {lock_zone_config(Cur)} : EntryPoint(s, "lock_zone_config", 0)
CallCreateKeyPair ==
    \E slot \in Slots :
        \E s \in {create_key_pair(Cur, slot)} : EntryPoint(s, "create_key_pair", slot)
CallLockDataAndOtp ==
    \E s \in {lock_data_and_otp(Cur)} : EntryPoint(s, "lock_data_and_otp", 0)
CallLockSlot0 ==
    \E s \in {lock_slot0(Cur)} : EntryPoint(s, "lock_slot0", 0)
CallGet ==
    \E s \in {get(Cur)} : EntryPoint(s, "get", 0)

\* whether the handler called the client back
HasCallback(s) == \E k \in 1 .. Len(s.events) : s.events[k].ev = "entropy_available"

\* whether the handler started a new fetch itself (the client answered More)
Refetched(s) == \E k \in 1 .. Len(s.events) : s.events[k].ev = "wakeup"

\* the transport completes the oldest pending transfer with `status`; the
\* client's behaviour is chosen when the handler calls it back, and it may
\* answer More only when `more` (a re-fetch counts as a call)
CompleteWith(status, more, behaviours) ==
    /\ ~panicked
    /\ i2c # <<>>
    /\ LET t == Head(i2c) IN
       \E r \in (IF t.kind = "read" /\ status = "Ok"
                 THEN ResponseChoices(t) ELSE {"zero"}) :
       \E buf \in {Completed(t, status, r)} :
       \E s0 \in {command_complete([Cur EXCEPT !.i2c = Tail(@)], buf, status,
                                   NoClientBehaviour)} :
       \E cl \in (IF HasCallback(s0)
                  THEN {c \in behaviours : c.answer = "More" => more}
                  ELSE {NoClientBehaviour}) :
       \E s \in (IF cl = NoClientBehaviour THEN {s0}
                 ELSE {command_complete([Cur EXCEPT !.i2c = Tail(@)], buf, status, cl)}) :
          /\ Commit(s, "command_complete", status, 0,
                    [kind |-> t.kind, len |-> t.len, data |-> Slice(buf, 0, t.len),
                     by |-> t.by])
          /\ history' = Continued(history, status, s.events)
          /\ calls' = IF Refetched(s) THEN calls + 1 ELSE calls
    /\ naks' = IF IsNak(status) /\ naks < MaxNaks THEN naks + 1 ELSE naks

Complete(status, more) == CompleteWith(status, more, ClientBehaviours)

CompleteOk(more) == Complete("Ok", more)
CompleteFault(more) == Complete("ArbitrationLost", more)
CompleteNak(more) == \E status \in {"AddressNak", "DataNak"} : Complete(status, more)

\* the driver's fields after a call
Fields(s) ==
    /\ op' = s.op
    /\ op_len' = s.op_len
    /\ buffer' = s.buffer
    /\ i2c' = s.i2c
    /\ entropy_buffer' = s.entropy_buffer
    /\ entropy_offset' = s.entropy_offset
    /\ config_lock' = s.config_lock
    /\ data_lock' = s.data_lock
    /\ public_key' = s.public_key
    /\ panicked' = s.panicked

\* a synchronous call that starts no operation: the fields after it, what it
\* returned
Query(s, call, slot, ret, value) ==
    /\ ~panicked
    /\ Fields(s)
    /\ last' = [Step(call, "", slot, NoTransfer, s.events, ret) EXCEPT !.value = value]
    /\ UNCHANGED <<entropy_client, history, calls, naks, spi_vars>>

CallCancel ==
    \E s \in {cancel(Cur)} : Query(s, "cancel", 0, s.ret, <<>>)

CallGetPublicKey ==
    \E slot \in Slots :
        \E r \in {get_public_key(Cur, slot)} :
            Query(Cur, "get_public_key", slot, r.ret, r.value)

CallDeviceLocked ==
    \E locked \in {device_locked(Cur)} :
        Query(Cur, "device_locked", 0, "Ok", <<locked>>)

Calls ==
    \/ CallReadConfigZone
    \/ CallSetupTockConfig
    \/ CallLockZoneConfig
    \/ CallCreateKeyPair
    \/ CallLockDataAndOtp
    \/ CallLockSlot0
    \/ CallGet

\* Entry points are called in any state; few NAKs.
Next ==
    \/ set_client
    \/ (calls < MaxCalls /\ Calls)
    \/ CompleteOk(calls < MaxCalls)
    \/ CompleteFault(calls < MaxCalls)
    \/ (naks < MaxNaks /\ CompleteNak(calls < MaxCalls))

Spec == Init /\ [][Next]_vars

\* Entry points are called only when the Operation is Ready; the transport
\* reports ok, address NAK or data NAK, with any number of NAKs.
NextIdle ==
    \/ set_client
    \/ (op = Ready /\ calls < IdleCalls /\ Calls)
    \/ CompleteOk(calls < IdleCalls)
    \/ CompleteNak(calls < IdleCalls)

SpecIdle == Init /\ [][NextIdle]_vars

\* As Next, with the synchronous calls that start no operation made in any state.
NextApi ==
    \/ Next
    \/ CallCancel
    \/ CallGetPublicKey
    \/ CallDeviceLocked

SpecApi == Init /\ [][NextApi]_vars

\* As NextIdle, with completions that report a fault other than NAK and with a
\* client that may call get() again from inside its callback.
CompleteReentrant == CompleteWith("Ok", TRUE, ReentrantBehaviours)

NextReady ==
    \/ NextIdle
    \/ CompleteFault(calls < IdleCalls)
    \/ (calls < MaxCalls /\ CompleteReentrant)

SpecReady == Init /\ [][NextReady]_vars

\* Entropy fetches started from Ready, with cancel() called at any point, over a
\* transport that completes every transfer it accepted and reports ok.
NextFetch ==
    \/ set_client
    \/ (op = Ready /\ calls < MaxCalls /\ CallGet)
    \/ CallCancel
    \/ CompleteOk(calls < MaxCalls)

SpecFetch == Init /\ [][NextFetch]_vars /\ WF_vars(CompleteOk(FALSE))

(***************************************************************************)
(* calculate_crc on its own, over every sequence of up to MaxCrcLen bytes   *)
(* drawn from CrcBytes.                                                     *)
(***************************************************************************)
CrcBytes == {0, 1, 4, 17, 85, 128, 255}
CrcInputs == UNION {[1 .. n -> CrcBytes] : n \in 0 .. MaxCrcLen}

\* data: &[u8], indexed from 0
AsSlice(bytes) == [i \in 0 .. (Len(bytes) - 1) |-> bytes[i + 1]]

\* calculate_crc reads no field of the driver, so one application per input
ApplyCalculateCrc ==
    \E bytes \in CrcInputs :
        \E crc \in {calculate_crc(AsSlice(bytes), 0, Len(bytes))} :
            /\ last.call = "new"
            /\ Fields(Cur)
            /\ last' = [Step("calculate_crc", "", 0, NoTransfer, <<>>, "Ok")
                          EXCEPT !.args = <<bytes>>, !.value = <<crc>>]
            /\ UNCHANGED <<entropy_client, history, calls, naks, spi_vars>>

SpecCrc == Init /\ [][ApplyCalculateCrc]_vars

(***************************************************************************)
(* The command framer on its own: send_command, read and write applied to  *)
(* a driver that holds WorkingBuffer, over bounded sets of arguments.       *)
(***************************************************************************)
\* a working buffer whose bytes all differ from their neighbours
FilledBuffer == [i \in Indices |-> (i * 11 + 5) % 256]

FramerOpcodes == {0, COMMAND_OPCODE_READ, COMMAND_OPCODE_GENKEY, 255}
FramerParam1 == {0, GENKEY_MODE_NEW_PRIVATE, 255}
FramerParam2 == {0, 1, ADDRESS_CONFIG_READ_BLOCK_2, 256, 4660, 65535}
FramerLengths == {0, 1, 4, CONFIG_ZONE_READ_SIZE}
FramerZones == {ZONE_CONFIG, ZONE_DATA, 130}
FramerAddresses == {ADDRESS_CONFIG_READ_BLOCK_0, ADDRESS_CONFIG_READ_BLOCK_2, 96 \div 4}
ZoneLengths == {0, 4, 5, CONFIG_ZONE_READ_SIZE, 33}

\* Atecc508a::new over a buffer of the caller's
InitFramer ==
    /\ op = Ready
    /\ op_len = 0
    /\ buffer \in {<<ZeroBuffer>>, <<FilledBuffer>>}
    /\ i2c = <<>>
    /\ entropy_buffer = <<ZeroPool>>
    /\ entropy_offset = 0
    /\ entropy_client = FALSE
    /\ config_lock = FALSE
    /\ data_lock = FALSE
    /\ public_key = ZeroKey
    /\ panicked = FALSE
    /\ last = [Step("new", "", 0, NoTransfer, <<>>, "Ok") EXCEPT !.pre_held = TRUE]
    /\ history = NoHistory
    /\ calls = 0
    /\ naks = 0
    /\ spi = SpiNew
    /\ spi_last = SpiStep("new", <<>>, SpiNew, <<>>, "Ok", <<>>)

\* a private helper applied to the driver: the fields after it, its arguments
Apply(s, call, args) ==
    /\ ~panicked
    /\ buffer # <<>>
    /\ Fields(s)
    /\ last' = [Step(call, "", 0, NoTransfer, s.events, s.ret) EXCEPT !.args = args]
    /\ UNCHANGED <<entropy_client, history, calls, naks, spi_vars>>

ApplySendCommand ==
    \E command_opcode \in FramerOpcodes, param1 \in FramerParam1,
       param2 \in FramerParam2, length \in FramerLengths :
        \E s \in {send_command(Cur, command_opcode, param1, param2, length)} :
            Apply(s, "send_command", <<command_opcode, param1, param2, length>>)

ApplyRead ==
    \E zone \in FramerZones, address \in FramerAddresses, length \in ZoneLengths :
        \E s \in {read(Cur, zone, address, length)} :
            Apply(s, "read", <<zone, address, length>>)

ApplyWrite ==
    \E zone \in FramerZones, address \in FramerAddresses, length \in ZoneLengths :
        \E s \in {write(Cur, zone, address, length)} :
            Apply(s, "write", <<zone, address, length>>)

NextFramer ==
    \/ ApplySendCommand
    \/ ApplyRead
    \/ ApplyWrite

SpecFramer == InitFramer /\ [][NextFramer]_vars

(***************************************************************************)
(* The PIO SPI shim on its own.  The client calls init, cmd_read and        *)
(* cmd_write with a buffer it holds; the state machine, once init has       *)
(* registered the shim with it, calls the completion callbacks in any       *)
(* order, a bulk completion with a buffer it was lent.                      *)
(***************************************************************************)

\* the shim's fields after a handler ran
SpiCommit(p, call, buf) ==
    /\ spi' = [state |-> p.state, program |-> p.program, client |-> p.client,
               cs |-> p.cs, where |-> p.where]
    /\ spi_last' = SpiStep(call, buf, spi, p.events, p.ret, p.reentry)
    /\ UNCHANGED atecc_vars

CallInit ==
    \E loaded \in BOOLEAN :
        /\ ~spi.client
        /\ SpiCommit(init(SpiCall(spi), loaded), "init", <<>>)

CallCmdRead ==
    \E buf \in SpiBuffers, fails \in PushFailures :
        /\ spi.where[buf] = "client"
        /\ SpiCommit(cmd_read(SpiCall(spi), buf, fails), "cmd_read", <<buf>>)

CallCmdWrite ==
    \E buf \in SpiBuffers, fails \in PushFailures :
        /\ spi.where[buf] = "client"
        /\ SpiCommit(cmd_write(SpiCall(spi), buf, fails), "cmd_write", <<buf>>)

WriteComplete ==
    \E pulled \in BOOLEAN :
        /\ spi.program
        /\ SpiCommit(write_complete(SpiCall(spi), pulled), "write_complete", <<>>)

WriteBulkComplete ==
    \E buf \in SpiBuffers, pulled \in BOOLEAN :
        /\ spi.program
        /\ spi.where[buf] = "sm"
        /\ SpiCommit(write_bulk_complete(SpiCall(spi), buf, pulled),
                     "write_bulk_complete", <<buf>>)

ReadBulkComplete ==
    \E buf \in SpiBuffers, pulled \in BOOLEAN :
        /\ spi.program
        /\ spi.where[buf] = "sm"
        /\ SpiCommit(read_bulk_complete(SpiCall(spi), buf, pulled),
                     "read_bulk_complete", <<buf>>)

ReadComplete ==
    \E reaction \in ClientReactions :
        /\ spi.program
        /\ SpiCommit(read_complete(SpiCall(spi), reaction), "read_complete", <<>>)

NextPioSpi ==
    \/ CallInit
    \/ CallCmdRead
    \/ CallCmdWrite
    \/ WriteComplete
    \/ WriteBulkComplete
    \/ ReadBulkComplete
    \/ ReadComplete

SpecPioSpi == Init /\ [][NextPioSpi]_vars

(***************************************************************************)
(* Vocabulary of the properties: what the last step was and what it did.    *)
(***************************************************************************)
IsCompletion == last.call = "command_complete"
IsEntryCall ==
    last.call \in {"read_config_zone", "setup_tock_config", "lock_zone_config",
                   "create_key_pair", "lock_data_and_otp", "lock_slot0", "get"}

\* request e asks the transport for exactly what transfer x asked
SameRequest(e, x) ==
    /\ e.ev = (IF x.kind = "write" THEN "i2c_write" ELSE "i2c_read")
    /\ e.len = x.len
    /\ x.kind = "write" => e.data = x.data

\* the phases whose Operation variant carries a retry counter
CounterPhases ==
    {"ReadConfigZeroResult", "ReadConfigTwoResult", "GenerateEntropyCommand",
     "GenerateEntropyResult", "SetupConfigTwo", "LockZoneConfig", "LockDataOtp",
     "LockSlot0", "LockResponse", "CreateKeyPair", "ReadKeyPair"}
LockPhases == {"LockZoneConfig", "LockDataOtp", "LockSlot0", "LockResponse"}
EntropyPhases == {"GenerateEntropyCommand", "GenerateEntropyResult"}

\* the value each arm of command_complete compares its counter with
RetryCeiling(tag) ==
    CASE tag \in {"ReadConfigZeroResult", "ReadConfigTwoResult", "SetupConfigTwo",
                  "GenerateEntropyCommand", "CreateKeyPair"} -> 10
      [] tag = "LockZoneConfig" -> 30
      [] tag \in {"LockDataOtp", "LockSlot0", "LockResponse"} -> 100
      [] tag = "GenerateEntropyResult" -> 1000
      [] tag = "ReadKeyPair" -> 5000

\* the last step handled a NAK in a phase that has a retry counter
NakInCounterPhase ==
    IsCompletion /\ IsNak(last.status) /\ last.pre.tag \in CounterPhases
\* ... and gave the phase up (asked the transport for nothing more)
Abandoned == NakInCounterPhase /\ Requests(last.events) = <<>>
\* ... or tried the phase again
Retried == NakInCounterPhase /\ Requests(last.events) # <<>>

\* a phase is abandoned at a ceiling that lies in lo .. hi
AbandonedWithin(lo, hi) ==
    /\ Abandoned => last.pre.run \in lo .. hi
    /\ Retried => last.pre.run < hi

\* C1: an operation-starting entry point called while an Operation is active
\* rejects or asserts: the active Operation is never overwritten, and a
\* completion is never handled by another Operation than the one that issued
\* the transfer.
C1_EntryWhileActiveRejected ==
    /\ (IsEntryCall /\ last.pre # Ready)
          => (panicked \/ (op = last.pre /\ last.ret # "Ok"))
    /\ IsCompletion => last.xfer.by = last.pre

\* C2: in every phase that has a retry counter, a NAK arriving with the
\* counter at its ceiling puts WorkingBuffer back in the driver and sets the
\* Operation to Ready.
C2_CeilingReclaimsAndIdles ==
    (NakInCounterPhase /\ last.pre.run = RetryCeiling(last.pre.tag))
        => (buffer # <<>> /\ op = Ready)

\* C3: under ok / NAK completions an operation started from idle always comes
\* back to Ready: once no transfer is pending (nothing is left to complete)
\* the Operation is Ready, so that a later call can start.
C3_QuiescentIsReady == (i2c = <<>> /\ ~panicked) => op = Ready

\* C4: WorkingBuffer has exactly one owner in every state, the driver's
\* buffer cell or the single in-flight transfer.
C4_BufferHasOneOwner ==
    ~panicked => \/ (buffer # <<>> /\ i2c = <<>>)
                 \/ (buffer = <<>> /\ Len(i2c) = 1)

\* C5: a completion with a transport fault other than a NAK is never fatal:
\* the handler does not panic, and the machine is idle with WorkingBuffer
\* reclaimed or still carrying the operation on with one transfer.
C5_OtherFaultNeverFatal ==
    (IsCompletion /\ last.status = "ArbitrationLost")
        => /\ ~panicked
           /\ \/ (op = Ready /\ buffer # <<>> /\ i2c = <<>>)
              \/ (op # Ready /\ buffer = <<>> /\ Len(i2c) = 1)

\* C6: a NAK in any active phase (the command-sent phases included) whose
\* retry counter is below its ceiling keeps the phase, adds one to the
\* counter and issues the NAKed request again, unchanged.
C6_NakRetriesSamePhase ==
    (/\ IsCompletion /\ IsNak(last.status) /\ last.pre # Ready
     /\ last.pre.tag \in CounterPhases => last.pre.run < RetryCeiling(last.pre.tag))
        => /\ op.tag = last.pre.tag
           /\ op.slot = last.pre.slot
           /\ op.run = (IF last.pre.tag \in CounterPhases THEN last.pre.run + 1 ELSE 0)
           /\ Len(Requests(last.events)) = 1
           /\ SameRequest(Requests(last.events)[1], last.xfer)

\* C7 as documented: a phase is abandoned exactly at 10 (config-zone reads),
\* between 30 and 100 (lock phases), 1000 (random number), 5000 (key pair).
C7_DocumentedCeilings ==
    /\ last.pre.tag \in {"ReadConfigZeroResult", "ReadConfigTwoResult"}
          => AbandonedWithin(10, 10)
    /\ last.pre.tag \in LockPhases => AbandonedWithin(30, 100)
    /\ last.pre.tag \in EntropyPhases => AbandonedWithin(1000, 1000)
    /\ last.pre.tag \in {"CreateKeyPair", "ReadKeyPair"} => AbandonedWithin(5000, 5000)

\* C7: a phase is abandoned exactly at its retry ceiling: 10 for the
\* config-zone reads and for the phases that send the RANDOM and GENKEY
\* commands, between 30 and 100 for every lock phase, 1000 for the read of
\* the random number and 5000 for the read of the generated key pair.
C7_CodeCeilings ==
    /\ last.pre.tag \in {"ReadConfigZeroResult", "ReadConfigTwoResult",
                         "GenerateEntropyCommand", "CreateKeyPair"}
          => AbandonedWithin(10, 10)
    /\ last.pre.tag \in LockPhases => AbandonedWithin(30, 100)
    /\ last.pre.tag = "GenerateEntropyResult" => AbandonedWithin(1000, 1000)
    /\ last.pre.tag = "ReadKeyPair" => AbandonedWithin(5000, 5000)

\* key-pair generation is given up after its 5000th retry of the result read
C7_KeyPairAbandoned ==
    Abandoned /\ last.pre.tag = "ReadKeyPair" /\ last.pre.run = 5000

\* C8: an entropy fetch that exhausts its retries (in either phase) calls the
\* registered client exactly once, with a failure status; a setup, lock or
\* key-pair operation that exhausts its retries calls no client and returns
\* no error.
C8_ExhaustionReporting ==
    /\ (Abandoned /\ last.pre.tag \in EntropyPhases /\ entropy_client)
          => /\ Len(Callbacks(last.events)) = 1
             /\ Callbacks(last.events)[1].status = "NOACK"
    /\ (Abandoned /\ last.pre.tag \in
            (LockPhases \cup {"SetupConfigTwo", "CreateKeyPair", "ReadKeyPair"}))
          => /\ Callbacks(last.events) = <<>>
             /\ last.ret = "Ok"
             /\ ~panicked

\* the read of the random number was given up and the client told
C8_EntropyReadExhausted ==
    /\ Abandoned /\ last.pre = Operation("GenerateEntropyResult", 1000, 0)
    /\ entropy_client
    /\ Len(Callbacks(last.events)) = 1

\* C9: a successful random-number read stores response bytes 1 .. 32 as the
\* pool and calls the client once with success; if the client answers More
\* exactly one fresh RANDOM command is written (no read is re-issued, the
\* Operation is GenerateEntropyCommand(0)); otherwise nothing is issued and
\* the Operation is Ready with WorkingBuffer reclaimed.
C9_EntropySuccess ==
    (/\ IsCompletion /\ last.status = "Ok" /\ entropy_client
     /\ last.pre.tag = "GenerateEntropyResult")
        => /\ entropy_buffer =
                <<[i \in 0 .. (RESPONSE_RANDOM_SIZE - 1) |-> last.xfer.data[i + 2]]>>
           /\ Len(Callbacks(last.events)) = 1
           /\ Callbacks(last.events)[1].status = "Ok"
           /\ IF Callbacks(last.events)[1].answer = "More"
              THEN /\ Len(Requests(last.events)) = 1
                   /\ Requests(last.events)[1].ev = "i2c_write"
                   /\ Requests(last.events)[1].data[ATRCC508A_PROTOCOL_FIELD_OPCODE + 1]
                         = COMMAND_OPCODE_RANDOM
                   /\ op = Operation("GenerateEntropyCommand", 0, 0)
                   /\ buffer = <<>> /\ Len(i2c) = 1
              ELSE /\ Requests(last.events) = <<>>
                   /\ op = Ready
                   /\ buffer # <<>> /\ i2c = <<>>

\* a random number was delivered, the client asked for more and got a re-fetch
C9_MoreRefetched ==
    /\ IsCompletion /\ last.status = "Ok" /\ entropy_client
    /\ last.pre.tag = "GenerateEntropyResult"
    /\ Len(Callbacks(last.events)) = 1
    /\ Callbacks(last.events)[1].answer = "More"
    /\ op = Operation("GenerateEntropyCommand", 0, 0)

\* C10: a delivered pool yields exactly 8 words: within one delivery every
\* pull after the 8th yields no value.
C10_EightWordsPerFetch ==
    \A k \in 1 .. Len(last.events) :
        (last.events[k].ev = "entropy_available" /\ last.events[k].status = "Ok")
            => \A j \in 1 .. Len(last.events[k].pulled) :
                  j > 8 => last.events[k].pulled[j] = NoItem

\* C11: each pull returns the big-endian 32-bit decoding of the 4 pool bytes
\* at the current offset and advances the offset by 4, wrapping to 0 once it
\* is 28 or more: the k-th pull of a callback that began at offset o reads
\* the group at (o + 4(k-1)) mod 32, so from offset 0 eight pulls yield the
\* eight consecutive groups in order.
C11_PullDecodesBigEndian ==
    \A c \in 1 .. Len(last.events) :
        last.events[c].ev = "entropy_available" =>
            LET pulled == last.events[c].pulled
                pool == entropy_buffer[1]
                at(k) == (last.pre_offset + 4 * (k - 1)) % RESPONSE_RANDOM_SIZE
            IN  /\ \A k \in 1 .. Len(pulled) :
                      pulled[k] = <<pool[at(k)] * 256 + pool[at(k) + 1],
                                    pool[at(k) + 2] * 256 + pool[at(k) + 3]>>
                /\ entropy_offset = at(Len(pulled) + 1)

\* eight pulls from offset 0 on a pool whose groups differ
C11_EightPullsInOrder ==
    \E c \in 1 .. Len(last.events) :
        /\ last.events[c].ev = "entropy_available"
        /\ last.events[c].status = "Ok"
        /\ Len(last.events[c].pulled) = 8
        /\ last.pre_offset = 0
        /\ last.events[c].pulled[1] # last.events[c].pulled[2]

\* C12: get_public_key fails with the resource-unavailable error exactly when
\* PublicKeyRecord is all zero and otherwise returns the record; the record
\* changes only when a key-pair result read completes ok, and then holds
\* response bytes 1 .. 64 of that exchange.
C12_PublicKeyRecord ==
    /\ last.call = "get_public_key" =>
          IF public_key = ZeroKey THEN last.ret = "BUSY"
          ELSE last.ret = "Ok" /\ last.value = <<public_key>>
    /\ public_key # last.pre_key =>
          (IsCompletion /\ last.pre.tag = "ReadKeyPair" /\ last.status = "Ok")
    /\ (IsCompletion /\ last.pre.tag = "ReadKeyPair" /\ last.status = "Ok") =>
          public_key = [i \in 0 .. (PUBLIC_KEY_SIZE - 1) |-> last.xfer.data[i + 2]]

\* C13 as documented: after each completed config-zone read each LockState
\* flag reflects the lock byte just parsed (true exactly when the byte is
\* 0x00; 0x55 and any other byte give false, and nothing fails), and
\* device_locked() is the conjunction of the two flags.
C13_LockFlagsReflectParse ==
    /\ (IsCompletion /\ last.pre.tag = "ReadConfigTwoResult" /\ last.status = "Ok")
          => /\ ~panicked
             /\ data_lock = (last.xfer.data[CONFIG_ZONE_OTP_LOCK - 63 + 1] = 0)
             /\ config_lock = (last.xfer.data[CONFIG_ZONE_LOCK_STATUS - 63 + 1] = 0)
    /\ last.call = "device_locked" => last.value = <<config_lock /\ data_lock>>

\* C13: after each completed config-zone read a lock byte of 0x00 has set its
\* LockState flag; 0x55 and any other byte leave the flag as it was (false
\* unless an earlier read set it) and nothing fails; device_locked() is the
\* conjunction of the two flags.
C13_LockFlagsSetByParse ==
    /\ (IsCompletion /\ last.pre.tag = "ReadConfigTwoResult" /\ last.status = "Ok")
          => /\ ~panicked
             /\ data_lock = (last.pre_locks[2]
                             \/ last.xfer.data[CONFIG_ZONE_OTP_LOCK - 63 + 1] = 0)
             /\ config_lock = (last.pre_locks[1]
                               \/ last.xfer.data[CONFIG_ZONE_LOCK_STATUS - 63 + 1] = 0)
    /\ last.call = "device_locked" => last.value = <<config_lock /\ data_lock>>

\* a config-zone read found the data/OTP zone locked and the config zone not
C13_OnlyDataLocked ==
    /\ IsCompletion /\ last.pre.tag = "ReadConfigTwoResult" /\ last.status = "Ok"
    /\ last.xfer.data[CONFIG_ZONE_OTP_LOCK - 63 + 1] = 0
    /\ last.xfer.data[CONFIG_ZONE_LOCK_STATUS - 63 + 1] = 85
    /\ data_lock /\ ~config_lock

\* the frame of a write request as the buffer it was cut from
FrameBytes(e) == [i \in 0 .. (Len(e.data) - 1) |-> e.data[i + 1]]

\* C14: send_command with WorkingBuffer held issues exactly one transport write
\* of payload_len + 8 bytes: byte 0 is the word-address marker 0x03, the length
\* byte is the total length minus 1, param2 is little-endian, and the last two
\* bytes are the little-endian crc16 of the bytes from the length byte through
\* the end of the payload.
C14_SendCommandFrame ==
    (last.call = "send_command" /\ last.pre_held) =>
        LET command_opcode == last.args[1]
            param1 == last.args[2]
            param2 == last.args[3]
            total == last.args[4] + 8
            e == last.events[1]
            crc == calculate_crc(FrameBytes(e), 1, total - 2)
        IN  /\ Len(last.events) = 1
            /\ e.ev = "i2c_write"
            /\ e.len = total
            /\ Len(e.data) = total
            /\ e.data[1] = 3
            /\ e.data[2] = total - 1
            /\ e.data[3] = command_opcode
            /\ e.data[4] = param1
            /\ e.data[5] = param2 % 256
            /\ e.data[6] = param2 \div 256
            /\ e.data[total - 1] = crc % 256
            /\ e.data[total] = crc \div 256
            /\ Len(i2c) = 1
            /\ i2c[1].kind = "write"
            /\ buffer = <<>>

\* a 32-byte payload framed with a param2 whose two bytes differ
C14_FullBlockFramed ==
    /\ last.call = "send_command"
    /\ last.pre_held
    /\ last.args = <<COMMAND_OPCODE_GENKEY, GENKEY_MODE_NEW_PRIVATE, 4660, 32>>
    /\ Len(last.events) = 1
    /\ last.events[1].len = 40
    /\ last.events[1].data[7] = FilledBuffer[6]

\* C15: read and write accept only a length of 4 or 32; 32 sets bit 7 of the
\* zone byte and 4 clears it; any other length returns SIZE synchronously with
\* no transport access and with WorkingBuffer, op_len and Operation unchanged.
C15_ReadWriteLengths ==
    [][ last'.call \in {"read", "write"} =>
          LET zone == last'.args[1]
              address == last'.args[2]
              length == last'.args[3]
              e == last'.events[1]
          IN  IF length \in {4, 32}
              THEN /\ last'.ret = "Ok"
                   /\ Len(last'.events) = 1
                   /\ e.ev = "i2c_write"
                   /\ e.data[3] = (IF last'.call = "read" THEN 2 ELSE 18)
                   /\ e.data[4] = (zone % 128) + (IF length = 32 THEN 128 ELSE 0)
                   /\ e.data[5] = address % 256
                   /\ e.data[6] = address \div 256
                   /\ op_len' = length
              ELSE /\ last'.ret = "SIZE"
                   /\ last'.events = <<>>
                   /\ UNCHANGED <<buffer, op_len, op, i2c>>
      ]_vars

\* a write of five bytes was refused with the buffer still held
C15_OddLengthRefused ==
    /\ last.call = "write"
    /\ last.args[3] = 5
    /\ last.ret = "SIZE"
    /\ last.pre_held
    /\ buffer # <<>>

\* a request is a framed command with these fields and this payload
CommandWrite(e, command_opcode, param1, param2, payload) ==
    /\ e.ev = "i2c_write"
    /\ e.len = Len(payload) + 8
    /\ e.data[1] = 3
    /\ e.data[3] = command_opcode
    /\ e.data[4] = param1
    /\ e.data[5] = param2 % 256
    /\ e.data[6] = param2 \div 256
    /\ \A k \in 1 .. Len(payload) : e.data[6 + k] = payload[k]

\* a request is a read of n bytes
ResponseRead(e, n) == e.ev = "i2c_read" /\ e.len = n

\* the operation `call` is under way or over with every completion ok so far
Unfailed(call) == history.call = call /\ history.ok

\* the requests of the operation so far begin the sequence `expected`
\* (a sequence of predicates on a request), and the operation is over exactly
\* when the whole sequence has been issued and nothing is pending
FollowsSequence(expected) ==
    LET n == Len(history.reqs) IN
    /\ n \in 1 .. Len(expected)
    /\ \A k \in 1 .. n : expected[k][history.reqs[k]]
    /\ IF i2c = <<>>
       THEN n = Len(expected) /\ op = Ready /\ buffer # <<>>
       ELSE Len(i2c) = 1 /\ op # Ready /\ buffer = <<>>

\* a 32-byte READ of `zone` at `address`
BlockRead(zone, address) ==
    [e \in {history.reqs[k] : k \in 1 .. Len(history.reqs)} |->
        CommandWrite(e, 2, zone + 128, address, <<>>)]

\* a read of the 35-byte response to a 32-byte READ
BlockResponse ==
    [e \in {history.reqs[k] : k \in 1 .. Len(history.reqs)} |-> ResponseRead(e, 35)]

\* C16 as documented: with every completion ok, read_config_zone() issues
\* write(READ, zone=0, len=32), read of 35 bytes, write(READ, zone=2,
\* address=0x0010, len=32), read of 35 bytes, then idles.
C16_SecondReadInZoneTwo ==
    Unfailed("read_config_zone") =>
        FollowsSequence(<<BlockRead(0, 0), BlockResponse, BlockRead(2, 16), BlockResponse>>)

\* C16: with every completion ok, read_config_zone() issues exactly these
\* requests, in order, and then idles: write(READ, zone 0, address 0, len 32),
\* read of 35 bytes, write(READ, zone 0, address 0x0010, len 32), read of 35
\* bytes.
C16_ConfigReadSequence ==
    Unfailed("read_config_zone") =>
        FollowsSequence(<<BlockRead(0, 0), BlockResponse, BlockRead(0, 16), BlockResponse>>)

\* the whole configuration read ran with every completion ok and is over
C16_ConfigReadDone ==
    /\ Unfailed("read_config_zone")
    /\ Len(history.reqs) = 4
    /\ i2c = <<>>
    /\ op = Ready

\* a 4-byte WRITE of `payload` to the configuration zone at word `address`
ConfigWrite(address, payload) ==
    [e \in {history.reqs[k] : k \in 1 .. Len(history.reqs)} |->
        CommandWrite(e, 18, 0, address, payload)]

\* C17 as documented: a setup call writes {0x83,0x20,0x83,0x20} at word offset
\* 5 first, then {0x33,0x00,0x33,0x00} at word offset 24, then idles.
C17_SlotConfigFirst ==
    Unfailed("setup_tock_config") =>
        FollowsSequence(<<ConfigWrite(5, <<131, 32, 131, 32>>),
                          ConfigWrite(24, <<51, 0, 51, 0>>)>>)

\* C17: a setup call performs two chained writes in this order: first the 4
\* bytes {0x33,0x00,0x33,0x00} at word offset 24 (key-config), then, when the
\* first write completes, the 4 bytes {0x83,0x20,0x83,0x20} at word offset 5
\* (slot-config), and then idles.
C17_KeyConfigFirst ==
    /\ Unfailed("setup_tock_config") =>
        FollowsSequence(<<ConfigWrite(24, <<51, 0, 51, 0>>),
                          ConfigWrite(5, <<131, 32, 131, 32>>)>>)
    /\ (IsCompletion /\ last.pre.tag = "SetupConfigOne" /\ ~panicked) =>
        /\ Len(last.events) = 1
        /\ CommandWrite(last.events[1], 18, 0, 5, <<131, 32, 131, 32>>)
        /\ op.tag = "SetupConfigTwo"

\* both setup writes went out and completed ok
C17_SetupDone ==
    /\ Unfailed("setup_tock_config")
    /\ Len(history.reqs) = 2
    /\ i2c = <<>>
    /\ op = Ready

\* a LOCK command with this mode byte, zero parameters and no payload
LockCommand(mode) ==
    [e \in {history.reqs[k] : k \in 1 .. Len(history.reqs)} |->
        CommandWrite(e, 23, mode, 0, <<>>)]

\* a read of the 4-byte response that carries the status byte
StatusRead ==
    [e \in {history.reqs[k] : k \in 1 .. Len(history.reqs)} |-> ResponseRead(e, 4)]

\* the status byte the last completed read handed back
StatusByte == last.xfer.data[2]

\* C18: each lock entry point sends one LOCK command with its fixed mode byte
\* (0x80, 0x81, 0x82) and zero parameters, then, once the command completes
\* without NAK, issues one status read, and idles after the status read
\* completes whether the status byte is 0x00 or not; nothing else is
\* transferred.
C18_LockThenStatusRead ==
    /\ Unfailed("lock_zone_config") => FollowsSequence(<<LockCommand(128), StatusRead>>)
    /\ Unfailed("lock_data_and_otp") => FollowsSequence(<<LockCommand(129), StatusRead>>)
    /\ Unfailed("lock_slot0") => FollowsSequence(<<LockCommand(130), StatusRead>>)
    /\ (IsCompletion /\ last.pre.tag \in {"LockZoneConfig", "LockDataOtp", "LockSlot0"}
          /\ ~IsNak(last.status)) =>
            /\ Len(last.events) = 1
            /\ ResponseRead(last.events[1], 4)
            /\ op.tag = "LockResponse"
    /\ (IsCompletion /\ last.pre.tag = "LockResponse" /\ ~IsNak(last.status)) =>
            /\ last.events = <<>>
            /\ op = Ready
            /\ i2c = <<>>
            /\ buffer # <<>>

\* a slot-0 lock ran to its end and the chip reported failure
C18_FailedLockIdles ==
    /\ Unfailed("lock_slot0")
    /\ Len(history.reqs) = 2
    /\ IsCompletion
    /\ last.pre.tag = "LockResponse"
    /\ StatusByte # 0
    /\ op = Ready

\* C19: get() fails synchronously whenever the transport write cannot be
\* issued: called with WorkingBuffer on loan it reports an error, and it never
\* returns success without a RANDOM write handed to the transport.
C19_GetFailsWithoutBuffer ==
    last.call = "get" =>
        /\ ~last.pre_held => last.ret # "Ok"
        /\ last.ret = "Ok" =>
              \E k \in 1 .. Len(last.events) :
                  CommandWrite(last.events[k], 27, 0, 0, <<>>)

\* C20: cancel() always returns success and changes nothing: in any state it
\* leaves the Operation and its retry counter, WorkingBuffer ownership, the
\* in-flight transfer and every other field as they were, so a fetch in flight
\* is completed by the same handlers from the same state.
C20_CancelChangesNothing ==
    [][ last'.call = "cancel" =>
          /\ last'.ret = "Ok"
          /\ last'.events = <<>>
          /\ UNCHANGED <<op, op_len, buffer, i2c, entropy_buffer, entropy_offset,
                         entropy_client, config_lock, data_lock, public_key,
                         panicked>>
      ]_vars

\* cancel() was called while the response to a RANDOM command was being read
C20_CancelledMidFetch ==
    /\ last.call = "cancel"
    /\ last.ret = "Ok"
    /\ op.tag = "GenerateEntropyResult"
    /\ Len(i2c) = 1
    /\ i2c[1].kind = "read"
    /\ buffer = <<>>
    /\ entropy_client

\* cancel() was called with a fetch in flight and a client registered
CancelledInFetch ==
    /\ last.call = "cancel"
    /\ last.pre.tag \in EntropyPhases
    /\ last.pre_pending = 1
    /\ entropy_client

\* Under SpecFetch: a fetch that was in flight when cancel() was called still
\* runs to its end and the client is called back.
CancelledFetchDelivers ==
    CancelledInFetch ~> (IsCompletion /\ Callbacks(last.events) # <<>>)

\* The reference computation, on a register of sixteen separate bits
\* (reg[i] is the bit of weight 2^i) and the data bits taken one at a time.
ReferenceStep(reg, data_bit) ==
    LET top == reg[15]
        shifted == [i \in 0 .. 15 |-> IF i = 0 THEN 0 ELSE reg[i - 1]]
    IN  IF data_bit # top
        THEN [i \in 0 .. 15 |-> IF i \in {0, 2, 15} THEN 1 - shifted[i] ELSE shifted[i]]
        ELSE shifted

\* bit k (0 .. 7, least significant first) of a byte
DataBit(byte, k) == (byte \div (2 ^ k)) % 2

RECURSIVE ReferenceRegister(_, _)
ReferenceRegister(bytes, nbits) ==
    IF nbits = 0 THEN [i \in 0 .. 15 |-> 0]
    ELSE ReferenceStep(ReferenceRegister(bytes, nbits - 1),
                       DataBit(bytes[((nbits - 1) \div 8) + 1], (nbits - 1) % 8))

RECURSIVE RegisterValue(_, _)
RegisterValue(reg, i) ==
    IF i < 0 THEN 0 ELSE reg[i] * (2 ^ i) + RegisterValue(reg, i - 1)

ReferenceCrc(bytes) == RegisterValue(ReferenceRegister(bytes, 8 * Len(bytes)), 15)

\* C21: calculate_crc over a byte sequence equals the reference bit-serial
\* computation (register 0 at the start; per byte, 8 bits least significant
\* first: take the register's top bit, shift left by 1 within 16 bits, XOR
\* with 0x8005 when the data bit differs from the top bit); the empty sequence
\* gives 0, and the chip's own packets 04 11 33 43 and 04 00 03 40 check.
C21_CrcMatchesReference ==
    last.call = "calculate_crc" =>
        LET bytes == last.args[1]
            crc == last.value[1]
        IN  /\ crc = ReferenceCrc(bytes)
            /\ bytes = <<>> => crc = 0
            /\ bytes = <<4, 17>> => crc = 67 * 256 + 51
            /\ bytes = <<4, 0>> => crc = 64 * 256 + 3

\* the checksum of the chip's wake-up packet was computed
C21_WakePacketChecked ==
    /\ last.call = "calculate_crc"
    /\ last.args = <<(<<4, 17>>)>>
    /\ last.value = <<17203>>

\* the last step was the completion of a result read of an entropy or
\* key-pair exchange, handled by that exchange's own arm
ResultCompletion ==
    /\ IsCompletion
    /\ last.pre.tag \in {"GenerateEntropyResult", "ReadKeyPair"}
    /\ last.xfer.kind = "read"
    /\ last.xfer.by = last.pre

\* the client was told success in the last step
ToldSuccess == \E k \in 1 .. Len(last.events) :
    last.events[k].ev = "entropy_available" /\ last.events[k].status = "Ok"

\* C22: EntropyPool and PublicKeyRecord are modified only by a successful
\* exchange: a result completion with any failure status (NAK at the ceiling
\* or other transport fault) leaves both unchanged and never reports success.
C22_FailedExchangeChangesNothing ==
    (ResultCompletion /\ last.status # "Ok") =>
        /\ entropy_buffer = last.pre_pool
        /\ public_key = last.pre_key
        /\ ~ToldSuccess

\* C23: every operation-starting entry point invokes the wake-up function
\* before it issues its first command write to the transport.
C23_WakeupBeforeFirstWrite ==
    IsEntryCall =>
        \A k \in 1 .. Len(last.events) :
            last.events[k].ev = "i2c_write" =>
                \E j \in 1 .. (k - 1) : last.events[j].ev = "wakeup"

\* C24: the two LockState flags are monotonic and written only by the result
\* of the second config-zone read: a flag that is true stays true, no other
\* step changes a flag, and a lock operation changes neither flag even when
\* its status byte reports success.
C24_LockFlagsMonotonic ==
    /\ last.pre_locks[1] => config_lock
    /\ last.pre_locks[2] => data_lock
    /\ <<config_lock, data_lock>> # last.pre_locks =>
          IsCompletion /\ last.pre.tag = "ReadConfigTwoResult"
    /\ (IsCompletion /\ last.pre.tag \in LockPhases) =>
          <<config_lock, data_lock>> = last.pre_locks

\* a lock whose status byte reports success has completed, and the flags are
\* still false
C24_LockedButNotFlagged ==
    /\ IsCompletion
    /\ last.pre.tag = "LockResponse"
    /\ last.status = "Ok"
    /\ last.xfer.kind = "read"
    /\ last.xfer.len = 4
    /\ StatusByte = 0
    /\ ~config_lock /\ ~data_lock

\* the client called get() from inside the callback of the last step
ClientReentered ==
    /\ IsCompletion
    /\ \E k \in 1 .. Len(last.events) :
          /\ last.events[k].ev = "entropy_available"
          /\ last.events[k].answer = "Done"
          /\ \E j \in 1 .. (k - 1) : last.events[j].ev = "i2c_write"

\* C25: when entry points are called only while the Operation is Ready, the
\* Operation is never Ready while a transport transfer is in flight, so no
\* completion is dispatched to the Ready arm, whatever the completion statuses.
C25_NeverReadyInFlight ==
    /\ i2c # <<>> => op # Ready
    /\ IsCompletion => last.pre # Ready

\* the client started a new fetch from inside the success callback, and its
\* transfer is in flight
C25_ReentrantFetchInFlight ==
    /\ ClientReentered
    /\ last.pre.tag = "GenerateEntropyResult"
    /\ last.status = "Ok"
    /\ op.tag = "GenerateEntropyCommand"
    /\ Len(i2c) = 1

\* the number of words the client pulled in these callbacks
RECURSIVE PullCount(_)
PullCount(cbs) ==
    IF cbs = <<>> THEN 0
    ELSE Cardinality({j \in 1 .. Len(Head(cbs).pulled) : Head(cbs).pulled[j] # NoItem})
         + PullCount(Tail(cbs))

\* C26: the entropy offset is changed only by a pull: each pull advances it by
\* 4 modulo 32 and nothing else touches it (a new pool does not reset it), so
\* it is always a multiple of 4 between 0 and 28 and a pull reads inside the
\* 32-byte pool.
C26_OffsetMovesOnlyByPull ==
    /\ entropy_offset \in {4 * k : k \in 0 .. 7}
    /\ entropy_offset + 4 <= RESPONSE_RANDOM_SIZE
    /\ entropy_offset =
          (last.pre_offset + 4 * PullCount(Callbacks(last.events))) % RESPONSE_RANDOM_SIZE
    /\ ~IsCompletion => entropy_offset = last.pre_offset

\* a new pool arrived while the offset was 4, and the offset is still 4
C26_NewPoolOldOffset ==
    /\ IsCompletion
    /\ last.pre.tag = "GenerateEntropyResult"
    /\ last.status = "Ok"
    /\ entropy_buffer # last.pre_pool
    /\ last.pre_offset = 4
    /\ entropy_offset = 4

(***************************************************************************)
(* Vocabulary of the PIO SPI shim's properties.                            *)
(***************************************************************************)
SpiCommand == spi_last.call \in {"cmd_read", "cmd_write"}

SpiCompletion ==
    spi_last.call \in {"write_complete", "write_bulk_complete", "read_bulk_complete",
                       "read_complete"}

\* the state the cell held when the last handler was entered
PreState == spi_last.pre.state[1]
PreHeld == spi_last.pre.state # <<>>

\* every buffer but the one handed to the last handler is where it was
OtherBuffersKept ==
    \A b \in SpiBuffers : <<b>> # spi_last.buf => spi.where[b] = spi_last.pre.where[b]

\* C27: a cmd_read or cmd_write that finds a state other than Idle in the
\* cell returns BUSY, leaves the cell, the buffer it tracks and every buffer
\* lent to the state machine as they were, and does nothing to the
\* chip-select pin or the state machine.
C27_BusyRejectedUntouched ==
    (SpiCommand /\ PreHeld /\ ~is_idle(PreState)) =>
        /\ spi_last.ret = "BUSY"
        /\ spi.state = spi_last.pre.state
        /\ OtherBuffersKept
        /\ spi.cs = spi_last.pre.cs
        /\ spi_last.events = <<>>

\* a cmd_write was refused while a read waited for its status word with the
\* other buffer
C27_RefusedWhileReadWaits ==
    /\ spi_last.call = "cmd_write"
    /\ PreHeld
    /\ PreState.tag = "ReadWaitForStatus"
    /\ PreState.buf # spi_last.buf
    /\ spi_last.ret = "BUSY"
    /\ spi.cs = "low"

\* the arm of process_state_change or update_status that the last completion
\* took was one of the named ones
ArmTaken ==
    \/ spi_last.call = "write_complete" /\ PreState.tag = "ReadCmdSent"
    \/ /\ spi_last.call \in {"write_bulk_complete", "read_bulk_complete"}
       /\ PreState.tag \in {"ReadWaitForData", "WriteCmdSent"}
    \/ /\ spi_last.call = "read_complete"
       /\ PreState.tag \in {"ReadWaitForStatus", "WriteWaitForStatus"}

NothingDropped ==
    \A b \in SpiBuffers :
        spi.where[b] = "dropped" => spi_last.pre.where[b] = "dropped"

\* C28: a completion that does not match the state in the cell leaves the
\* cell holding that state, and drops neither the buffer of the state nor
\* the buffer the completion carries.
C28_MismatchChangesNothing ==
    (SpiCompletion /\ PreHeld /\ ~ArmTaken /\ spi_last.pre.client) =>
        /\ spi.state = spi_last.pre.state
        /\ NothingDropped

\* C29: the Busy state left behind by a command that failed after the idle
\* check, or by a completion handler whose pull failed, does not last: a
\* later cmd_read or cmd_write is not refused because of it.
C29_LaterCommandAccepted ==
    (SpiCommand /\ PreHeld /\ PreState.tag = "Busy") => spi_last.ret # "BUSY"

\* no handler takes the cell from Busy to Idle
BusyNeverBecomesIdle ==
    [][spi.state = <<SpiBusy>> => spi'.state # <<SpiIdle>>]_vars

\* a completion handler's pull failed and it left Busy in the cell
BusyAfterFailedPull ==
    /\ SpiCompletion
    /\ PreHeld
    /\ ArmTaken
    /\ spi.state = <<SpiBusy>>

\* the command the client made from inside its completion callback, if any
Reentered == spi_last.call = "read_complete" /\ spi_last.reentry # <<>>
ReentrantCommand == spi_last.reentry[1]

\* C30: a cmd_read or cmd_write that the client made from inside
\* on_cmd_read / on_cmd_write and that was accepted is still tracked when
\* update_status returns: the cell holds its ReadCmdSent or WriteCmdSent,
\* not Idle, and its buffer is in the cell or with the state machine.
C30_ReentrantCommandTracked ==
    (Reentered /\ ReentrantCommand.ret = "Ok") =>
        /\ spi.state # <<>>
        /\ spi.state[1].tag =
              (IF ReentrantCommand.call = "cmd_read" THEN "ReadCmdSent" ELSE "WriteCmdSent")
        /\ spi.where[ReentrantCommand.buf] \in {"state", "sm"}

====
